---- MODULE Spec2Model ----
(***************************************************************************)
(* Context-window budgeting and overflow spillover of HolmesGPT:           *)
(*   holmes/core/conversations.py                                          *)
(*   holmes/core/tools_utils/tool_context_window_limiter.py                *)
(*   holmes/core/tools_utils/filesystem_result_storage.py                  *)
(*   holmes/core/prompt.py                                                 *)
(*   holmes/plugins/toolsets/http/http_toolset.py                          *)
(*   holmes/utils/config_hash.py                                           *)
(*                                                                         *)
(* The specifications of the module:                                       *)
(*   SpecConv     the conversation assembler and its budget calculator     *)
(*   SpecLimiter  prevent_overly_big_tool_response on one tool call        *)
(*   SpecStorage  the tool_result_storage scopes and save_large_result     *)
(*   SpecPrompt   is_component_enabled on one prompt component             *)
(*   SpecHttp     HttpRequest._invoke on one request                       *)
(*   SpecHash     check_and_update_config_hashes over changing files       *)
(* Python lists and dicts are objects: a message is a cell of `heap`, a    *)
(* list is a sequence of cell numbers, so that aliasing is visible.        *)
(***************************************************************************)
EXTENDS Integers, Sequences, FiniteSets, TLC

\* ---------------------------------------------------------------- bounds
MaxOutputLen == 2    \* longest tool output / tool message content
MaxTools == 2        \* most investigation tools of a request
MaxHistory == 2      \* longest caller-supplied conversation history
MaxSaves == 2        \* most save_large_result calls in one scope
BasePathLen == 11     \* characters of the configured HOLMES_TOOL_RESULT_STORAGE_PATH
MaxEnvPieces == 2    \* most comma-separated pieces of ENABLED_PROMPTS
MaxFilePaths == 2    \* most entries of file_paths

\* ------------------------------------------------------ program constants
DEFAULT_TOOL_SIZE == 10000
SizeInfoPrefixLen == 45   \* "The tool call result is too large to return: "
SizeInfoSuffixLen == 9    \* " tokens.\n"
SavedToLen == 10          \* "Saved to: "
UseBashLineLen == 126     \* "Use the bash commands ... jq).\n"
PreviewHeaderLen == 10    \* "\nPreview:\n"
UuidLen == 36             \* str(uuid.uuid4())
ToolResultsLen == 12      \* "tool_results"
CharsPerToken == 4        \* chars_per_token

\* --------------------------------------------------------------- helpers
Min(a, b) == IF a < b THEN a ELSE b
Max(a, b) == IF a > b THEN a ELSE b

Range(s) == {s[i] : i \in DOMAIN s}

\* Sequences over S of length 0..n.
SeqsUpTo(S, n) == UNION {[1..k -> S] : k \in 0..n}

\* A text of length k whose i-th character is i: a prefix, a suffix and any
\* other cut of it are told apart.
TextOfLen(k) == [i \in 1..k |-> i]
Texts == {TextOfLen(k) : k \in 0..MaxOutputLen}

\* Python's s[:k]: a negative k counts from the end.
PySliceTo(s, k) ==
    LET n == Len(s)
        stop == IF k < 0 THEN Max(n + k, 0) ELSE Min(k, n)
    IN SubSeq(s, 1, stop)

\* Python's int(a / n) for n > 0: true division, then truncation toward zero.
IntTrueDiv(a, n) == IF a >= 0 THEN a \div n ELSE -((-a) \div n)

\* ------------------------------------------------------------- the state
VARIABLES
    \* holmes/core/conversations.py
    heap,                  \* message dicts: cell number -> [role, content]
    conversation_history,  \* the caller's list object: [none, items]
    returned,              \* what the operation returned: [alias, items]
    call,                  \* the operation that ran and its inputs
    before,                \* heap and caller's list when the operation began
    budget,                \* the tool_size the operation computed: [computed, value]
    events,                \* collaborator calls made by the operation, in order
    \* holmes/core/tools_utils/tool_context_window_limiter.py
    tool_call_result,      \* the ToolCallResult handed to the limiter
    lim,                   \* the limiter call: its inputs, what it measured, what it returned
    telemetry,             \* sentry_helper.capture_toolcall_contains_too_many_tokens calls
    \* the file system under HOLMES_TOOL_RESULT_STORAGE_PATH
    dirs,                  \* chat ids whose <base>/<chat_id>/tool_results exists
    files,                 \* files in those directories: [chat, file, content]
    \* holmes/core/tools_utils/filesystem_result_storage.py
    scopes,                \* the uses of tool_result_storage(): scope -> its record
    \* holmes/core/prompt.py
    component_call,        \* the is_component_enabled call: its inputs and result
    \* holmes/plugins/toolsets/http/http_toolset.py
    http_call,             \* the HttpRequest._invoke call: its inputs and result
    sent,                  \* the requests handed to requests.request, in order
    \* holmes/utils/config_hash.py
    config_files,          \* the datasource config files: absolute path -> file
    hash_file,             \* the file at hash_file_path
    hash_call              \* the check_and_update_config_hashes call and its result

convVars == <<heap, conversation_history, returned, call, before, budget, events>>
limVars == <<tool_call_result, lim, telemetry>>
fsVars == <<dirs, files>>
stoVars == <<scopes>>
promptVars == <<component_call>>
httpVars == <<http_call, sent>>
hashVars == <<config_files, hash_file, hash_call>>

vars == <<convVars, limVars, fsVars, stoVars, promptVars, httpVars, hashVars>>

\* ------------------------------------------------ message contents
\* A content is plain text (a tool output, an old prompt), a rendered system
\* prompt (the template collaborator's output, kept by what went into it) or
\* a rendered user prompt.  `cuts` records slices [:k] applied to a rendered
\* text, whose characters the model does not hold.
NoneList == [none |-> TRUE, items |-> <<>>]
SomeList(items) == [none |-> FALSE, items |-> items]

PlainText(s) == [kind |-> "text", body |-> s, tools |-> NoneList, cuts |-> <<>>]

\* load_and_render_prompt(template_path, context) of the issue template;
\* tools_called is context["tools_called_for_investigation"]: None or a list.
RenderIssuePrompt(tools_called) ==
    [kind |-> "issue_system_prompt", body |-> <<>>, tools |-> tools_called, cuts |-> <<>>]

\* build_prompts(...)[0]: the chat system prompt.
ChatSystemPrompt ==
    [kind |-> "chat_system_prompt", body |-> <<>>, tools |-> NoneList, cuts |-> <<>>]

\* generate_user_prompt(ask, runbooks_ctx) / build_prompts(...)[1].
UserPrompt ==
    [kind |-> "user_prompt", body |-> <<>>, tools |-> NoneList, cuts |-> <<>>]

\* content[:k]
SliceContent(c, k) ==
    IF c.kind = "text" THEN [c EXCEPT !.body = PySliceTo(c.body, k)]
    ELSE [c EXCEPT !.cuts = Append(@, k)]

Msg(role, content) == [role |-> role, content |-> content]

\* ------------------------------------------------------ BudgetCalculator
\* Mutant: the quotient is rounded down (//) instead of toward zero.
calculate_tool_size_Floor(context_window, tokens, maximum_output_token, number_of_tools) ==
    IF number_of_tools = 0 THEN DEFAULT_TOOL_SIZE
    ELSE Min(DEFAULT_TOOL_SIZE,
             (context_window - tokens - maximum_output_token) \div number_of_tools)

\* Mutant: the quotient is rounded up.
calculate_tool_size_Ceil(context_window, tokens, maximum_output_token, number_of_tools) ==
    IF number_of_tools = 0 THEN DEFAULT_TOOL_SIZE
    ELSE Min(DEFAULT_TOOL_SIZE,
             -IntTrueDiv(-(context_window - tokens - maximum_output_token) - number_of_tools + 1,
                         number_of_tools))

\* How many times calculate_tool_size asks the llm for a token count: the
\* early return of lines 30-31 comes before line 34.
CountTokensCalls(number_of_tools) == IF number_of_tools = 0 THEN 0 ELSE 1

calculate_tool_size(context_window, tokens, maximum_output_token, number_of_tools) ==
    IF number_of_tools = 0 THEN DEFAULT_TOOL_SIZE
    ELSE Min(DEFAULT_TOOL_SIZE,
             IntTrueDiv(context_window - tokens - maximum_output_token, number_of_tools))

\* ------------------------------------------------------- OutputTruncator
truncate_tool_outputs(tools, tool_size) ==
    [i \in 1..Len(tools) |->
        [name |-> tools[i].name,
         description |-> tools[i].description,
         output |-> PySliceTo(tools[i].output, tool_size)]]

\* Mutant: the outputs are cut in the given objects, which are returned.
truncate_tool_outputs_call_InPlace(tools, tool_size) ==
    [tools |-> truncate_tool_outputs(tools, tool_size),
     result |-> truncate_tool_outputs(tools, tool_size)]

\* A call of truncate_tool_outputs as its caller sees it: the list
\* comprehension reads the given objects and builds new ones, so the given
\* list is as it was (`tools`) and the new list is returned (`result`).
truncate_tool_outputs_call(tools, tool_size) ==
    [tools |-> tools, result |-> truncate_tool_outputs(tools, tool_size)]

\* The loop of truncate_tool_messages from position i on; h is the heap.
RECURSIVE TruncateFrom(_, _, _, _)
TruncateFrom(h, list, i, tool_size) ==
    IF i > Len(list) THEN h
    ELSE TruncateFrom(
            IF h[list[i]].role = "tool"
            THEN [h EXCEPT ![list[i]].content = SliceContent(@, tool_size)]
            ELSE h,
            list, i + 1, tool_size)

truncate_tool_messages(h, list, tool_size) == TruncateFrom(h, list, 1, tool_size)

\* [message for message in list if message.get("role") == "tool"], and its complement
RECURSIVE FilterRole(_, _, _, _)
FilterRole(h, list, i, keep_tool) ==
    IF i > Len(list) THEN <<>>
    ELSE (IF (h[list[i]].role = "tool") = keep_tool THEN <<list[i]>> ELSE <<>>)
         \o FilterRole(h, list, i + 1, keep_tool)

ToolMessages(h, list) == FilterRole(h, list, 1, TRUE)
WithoutTools(h, list) == FilterRole(h, list, 1, FALSE)

\* The contents of a list of messages, as the token accountant is given them.
View(h, list) == [i \in 1..Len(list) |-> h[list[i]]]

\* One collaborator call, as logged in `events`: its name, the messages it
\* is given (for a render, the text it returns) and the size it is given.
Event(name, view, size) == [ev |-> name, view |-> view, size |-> size]

NotComputed == [computed |-> FALSE, value |-> 0]
Computed(v) == [computed |-> TRUE, value |-> v]

\* -------------------------------------------------- ConversationAssembler
\* Mutant: the builders budget also when there is no tool slot.
NothingToBudget_Never(number_of_tools) == FALSE

\* lines 98, 190, 309: `if number_of_tools == 0: return ...`
NothingToBudget(number_of_tools) == number_of_tools = 0

\* build_issue_chat_messages, new conversation (no history): lines 87-169.
\* llm is [context_window, maximum_output_token]; tokens is what
\* ai.llm.count_tokens returns for the list it is given.
IssueNew(h, hist, tools, llm, tokens) ==
    LET n == Len(tools)
        user == Msg("user", UserPrompt)
    IN IF NothingToBudget(n)
       THEN [heap |-> h \o <<Msg("system", RenderIssuePrompt(SomeList(tools))), user>>,
             history |-> hist,
             returned |-> [alias |-> "fresh", items |-> <<Len(h) + 1, Len(h) + 2>>],
             budget |-> NotComputed,
             events |-> <<Event("render", <<RenderIssuePrompt(SomeList(tools))>>, 0)>>]
       ELSE LET messages_without_tools ==
                    <<Msg("system", RenderIssuePrompt(NoneList)), user>>
                tool_size == calculate_tool_size(llm.context_window, tokens,
                                                 llm.maximum_output_token, n)
                truncated == truncate_tool_outputs(tools, tool_size)
            IN [heap |-> h \o <<Msg("system", RenderIssuePrompt(SomeList(truncated))), user>>,
                history |-> hist,
                returned |-> [alias |-> "fresh", items |-> <<Len(h) + 1, Len(h) + 2>>],
                budget |-> Computed(tool_size),
                events |-> <<Event("render", <<RenderIssuePrompt(NoneList)>>, 0),
                             Event("count_tokens", messages_without_tools, 0),
                             Event("truncate_tool_outputs", <<>>, tool_size),
                             Event("render", <<RenderIssuePrompt(SomeList(truncated))>>, 0)>>]

\* build_issue_chat_messages, follow-up (history present): lines 171-230.
IssueFollowUp(h, hist, tools, llm, tokens) ==
    LET h1 == Append(h, Msg("user", UserPrompt))
        list == Append(hist.items, Len(h) + 1)          \* conversation_history.append
        number_of_tools == Len(tools) + Len(ToolMessages(h1, list))
    IN IF NothingToBudget(number_of_tools)
       THEN [heap |-> h1, history |-> SomeList(list),
             returned |-> [alias |-> "caller", items |-> list],
             budget |-> NotComputed, events |-> <<>>]
       ELSE LET without_tools == WithoutTools(h1, list)
                \* conversation_history_without_tools[0]["content"] = ...
                h2 == [h1 EXCEPT ![without_tools[1]].content = RenderIssuePrompt(NoneList)]
                tool_size == calculate_tool_size(llm.context_window, tokens,
                                                 llm.maximum_output_token, number_of_tools)
                truncated == truncate_tool_outputs(tools, tool_size)
                \* conversation_history[0]["content"] = ...
                h3 == [h2 EXCEPT ![list[1]].content = RenderIssuePrompt(SomeList(truncated))]
                h4 == truncate_tool_messages(h3, list, tool_size)
            IN [heap |-> h4, history |-> SomeList(list),
                returned |-> [alias |-> "caller", items |-> list],
                budget |-> Computed(tool_size),
                events |-> <<Event("render", <<RenderIssuePrompt(NoneList)>>, 0),
                             Event("count_tokens", View(h2, without_tools), 0),
                             Event("truncate_tool_outputs", <<>>, tool_size),
                             Event("render", <<RenderIssuePrompt(SomeList(truncated))>>, 0),
                             Event("truncate_tool_messages", <<>>, tool_size)>>]

build_issue_chat_messages(h, hist, tools, llm, tokens) ==
    IF hist.none \/ Len(hist.items) = 0
    THEN IssueNew(h, hist, tools, llm, tokens)
    ELSE IssueFollowUp(h, hist, tools, llm, tokens)

\* Mutant: the scan for a system message elsewhere is left out.
add_or_update_system_prompt_AlwaysInserts(h, list, system_prompt) ==
    IF system_prompt.none THEN [heap |-> h, items |-> list]
    ELSE IF Len(list) = 0
    THEN [heap |-> Append(h, Msg("system", system_prompt.value)),
          items |-> <<Len(h) + 1>>]
    ELSE IF h[list[1]].role = "system"
    THEN [heap |-> [h EXCEPT ![list[1]].content = system_prompt.value], items |-> list]
    ELSE [heap |-> Append(h, Msg("system", system_prompt.value)),
          items |-> <<Len(h) + 1>> \o list]

\* Mutant: the new system message is appended instead of inserted at 0.
add_or_update_system_prompt_Appends(h, list, system_prompt) ==
    IF system_prompt.none THEN [heap |-> h, items |-> list]
    ELSE IF Len(list) = 0
    THEN [heap |-> Append(h, Msg("system", system_prompt.value)),
          items |-> <<Len(h) + 1>>]
    ELSE IF h[list[1]].role = "system"
    THEN [heap |-> [h EXCEPT ![list[1]].content = system_prompt.value], items |-> list]
    ELSE IF \E i \in 1..Len(list) : h[list[i]].role = "system"
    THEN [heap |-> h, items |-> list]
    ELSE [heap |-> Append(h, Msg("system", system_prompt.value)),
          items |-> Append(list, Len(h) + 1)]

\* add_or_update_system_prompt(conversation_history, system_prompt): the list
\* is mutated in place and returned; the result is [heap, items].
add_or_update_system_prompt(h, list, system_prompt) ==
    IF system_prompt.none THEN [heap |-> h, items |-> list]
    ELSE IF Len(list) = 0
    THEN [heap |-> Append(h, Msg("system", system_prompt.value)),
          items |-> <<Len(h) + 1>>]
    ELSE IF h[list[1]].role = "system"
    THEN [heap |-> [h EXCEPT ![list[1]].content = system_prompt.value], items |-> list]
    ELSE IF \E i \in 1..Len(list) : h[list[i]].role = "system"
    THEN [heap |-> h, items |-> list]
    ELSE [heap |-> Append(h, Msg("system", system_prompt.value)),
          items |-> <<Len(h) + 1>> \o list]

\* build_chat_messages: lines 264-322.  system_prompt is build_prompts' first
\* result: [none, value].
build_chat_messages(h, hist, system_prompt, llm, tokens) ==
    LET copy == IF hist.none \/ Len(hist.items) = 0 THEN <<>> ELSE hist.items
        s == add_or_update_system_prompt(h, copy, system_prompt)
        h1 == Append(s.heap, Msg("user", UserPrompt))
        list == Append(s.items, Len(s.heap) + 1)
        number_of_tools == Len(ToolMessages(h1, list))
    IN IF NothingToBudget(number_of_tools)
       THEN [heap |-> h1, history |-> hist,
             returned |-> [alias |-> "fresh", items |-> list],
             budget |-> NotComputed, events |-> <<>>]
       ELSE LET without_tools == WithoutTools(h1, list)
                tool_size == calculate_tool_size(llm.context_window, tokens,
                                                 llm.maximum_output_token, number_of_tools)
            IN [heap |-> truncate_tool_messages(h1, list, tool_size),
                history |-> hist,
                returned |-> [alias |-> "fresh", items |-> list],
                budget |-> Computed(tool_size),
                events |-> <<Event("count_tokens", View(h1, without_tools), 0),
                             Event("truncate_tool_messages", <<>>, tool_size)>>]

\* ----------------------------------------------------- inputs of SpecConv
\* The system prompt an earlier build_issue_chat_messages call put into the
\* history: rendered with that call's truncated tool outputs.
EarlierIssuePrompt ==
    RenderIssuePrompt(SomeList(<<[name |-> 1, description |-> 1, output |-> TextOfLen(1)]>>))

\* The messages a caller's history is made of: tool messages carry a text of
\* any length up to MaxOutputLen, the others a fixed text of that length; a
\* system message may also be the one an earlier call rendered.
HistoryMessages ==
    {Msg(r, PlainText(TextOfLen(MaxOutputLen))) : r \in {"system", "user", "assistant"}}
    \cup {Msg("tool", PlainText(t)) : t \in Texts}
    \cup {Msg("system", EarlierIssuePrompt)}

Histories == SeqsUpTo(HistoryMessages, MaxHistory)

\* investigation_result.tools: ToolCallConversationResult(name, description, output)
ToolLists ==
    {[i \in 1..Len(outs) |-> [name |-> i, description |-> i, output |-> outs[i]]] :
        outs \in SeqsUpTo(Texts, MaxTools)}

\* The token accountant: the model's window and output reservation, and the
\* count it returns for the tool-free list.  4 - tokens - 1 is 3, -1 or -3;
\* 30000 - tokens - 1 is above DEFAULT_TOOL_SIZE for up to two slots.
LLMs == [context_window : {4, 30000}, maximum_output_token : {1}]
TokenCounts == {0, 4, 6}

\* The budgets truncate_tool_outputs is called with directly.
Budgets == (-(MaxOutputLen + 1))..(MaxOutputLen + 1)

\* The inputs calculate_tool_size is called with directly: those of the
\* builders, and a window of 8000 with 2000 tokens used, 1000 reserved and
\* five slots.
CalcLLMs == LLMs \cup {[context_window |-> 8000, maximum_output_token |-> 1000]}
CalcTokenCounts == TokenCounts \cup {2000}
SlotCounts == 0..(MaxTools + 3)

\* Tool lists of n results whose outputs are all short, or all 5000 long.
LongToolLists(n) ==
    {[i \in 1..n |-> [name |-> i, description |-> i, output |-> TextOfLen(len)]] :
        len \in {MaxOutputLen, 5000}}

\* `prev` and `prev_tools` are the budget and slot count of the call before,
\* when this call repeats it with more slots.
IdleCall ==
    [op |-> "none", tools |-> <<>>, llm |-> [context_window |-> 0, maximum_output_token |-> 0],
     tokens |-> 0, system_prompt_none |-> FALSE, tool_size |-> 0, outputs |-> <<>>,
     tools_after |-> <<>>, number_of_tools |-> 0, count_tokens_calls |-> 0,
     prev |-> NotComputed, prev_tools |-> 0]

\* -------------------------------------------------------------- SpecConv
ConvStart ==
    /\ heap = <<>>
    /\ conversation_history = NoneList
    /\ returned = [alias |-> "none", items |-> <<>>]
    /\ call = IdleCall
    /\ before = [heap |-> <<>>, history |-> NoneList]
    /\ budget = NotComputed
    /\ events = <<>>

\* The caller's list: None, or a list of its own message dicts (cells 1..n).
CallerLists(msgs) ==
    {SomeList([i \in 1..Len(msgs) |-> i])} \cup (IF Len(msgs) = 0 THEN {NoneList} ELSE {})

Finish(r) ==
    /\ heap' = r.heap
    /\ conversation_history' = r.history
    /\ returned' = r.returned
    /\ budget' = r.budget
    /\ events' = r.events

BuildIssueChatMessages ==
    /\ call.op = "none"
    /\ \E msgs \in Histories, tools \in ToolLists, llm \in LLMs, tokens \in TokenCounts :
         \E hist \in CallerLists(msgs) :
            /\ call' = [IdleCall EXCEPT !.op = "build_issue_chat_messages",
                                        !.tools = tools, !.llm = llm, !.tokens = tokens]
            /\ before' = [heap |-> msgs, history |-> hist]
            /\ Finish(build_issue_chat_messages(msgs, hist, tools, llm, tokens))
    /\ UNCHANGED <<limVars, fsVars, stoVars, promptVars, httpVars, hashVars>>

BuildChatMessages ==
    /\ call.op = "none"
    /\ \E msgs \in Histories, none \in BOOLEAN, llm \in LLMs, tokens \in TokenCounts :
         \E hist \in CallerLists(msgs) :
            /\ call' = [IdleCall EXCEPT !.op = "build_chat_messages",
                                        !.system_prompt_none = none,
                                        !.llm = llm, !.tokens = tokens]
            /\ before' = [heap |-> msgs, history |-> hist]
            /\ Finish(build_chat_messages(
                   msgs, hist, [none |-> none, value |-> ChatSystemPrompt], llm, tokens))
    /\ UNCHANGED <<limVars, fsVars, stoVars, promptVars, httpVars, hashVars>>

\* A direct call of truncate_tool_outputs(tools, tool_size).
TruncateToolOutputs ==
    /\ call.op = "none"
    /\ \E tools \in ToolLists, tool_size \in Budgets :
         LET r == truncate_tool_outputs_call(tools, tool_size)
         IN call' = [IdleCall EXCEPT !.op = "truncate_tool_outputs", !.tools = tools,
                                     !.tool_size = tool_size,
                                     !.tools_after = r.tools, !.outputs = r.result]
    /\ UNCHANGED <<heap, conversation_history, returned, before, budget, events>>
    /\ UNCHANGED <<limVars, fsVars, stoVars, promptVars, httpVars, hashVars>>

\* A direct call of calculate_tool_size(ai, messages_without_tools,
\* number_of_tools): the first of a request, or one that repeats the call
\* before it with the same llm answers and more slots.
CalculateToolSize ==
    /\ call.op \in {"none", "calculate_tool_size"}
    /\ \E llm \in CalcLLMs, tokens \in CalcTokenCounts, n \in SlotCounts :
         /\ call.op = "calculate_tool_size" =>
               llm = call.llm /\ tokens = call.tokens /\ n > call.number_of_tools
         /\ call' = [IdleCall EXCEPT
                        !.op = "calculate_tool_size", !.llm = llm, !.tokens = tokens,
                        !.number_of_tools = n,
                        !.count_tokens_calls = CountTokensCalls(n),
                        !.tool_size = calculate_tool_size(
                            llm.context_window, tokens, llm.maximum_output_token, n),
                        !.prev = IF call.op = "none" THEN NotComputed
                                 ELSE Computed(call.tool_size),
                        !.prev_tools = call.number_of_tools]
    /\ UNCHANGED <<heap, conversation_history, returned, before, budget, events>>
    /\ UNCHANGED <<limVars, fsVars, stoVars, promptVars, httpVars, hashVars>>

\* Lines 143-157: the size computed for len(tools) slots is what
\* truncate_tool_outputs is called with on those tools.
TruncateAtCalculatedSize ==
    /\ call.op = "calculate_tool_size"
    /\ call.number_of_tools > 0
    /\ \E tools \in LongToolLists(call.number_of_tools) :
         LET r == truncate_tool_outputs_call(tools, call.tool_size)
         IN call' = [call EXCEPT !.op = "calculate_then_truncate", !.tools = tools,
                                 !.tools_after = r.tools, !.outputs = r.result]
    /\ UNCHANGED <<heap, conversation_history, returned, before, budget, events>>
    /\ UNCHANGED <<limVars, fsVars, stoVars, promptVars, httpVars, hashVars>>

\* A direct call of add_or_update_system_prompt(conversation_history,
\* system_prompt) on the caller's own list.
AddOrUpdateSystemPrompt ==
    /\ call.op = "none"
    /\ \E msgs \in Histories, none \in BOOLEAN :
         LET list == [i \in 1..Len(msgs) |-> i]
             r == add_or_update_system_prompt(
                     msgs, list, [none |-> none, value |-> ChatSystemPrompt])
         IN /\ call' = [IdleCall EXCEPT !.op = "add_or_update_system_prompt",
                                         !.system_prompt_none = none]
            /\ before' = [heap |-> msgs, history |-> SomeList(list)]
            /\ heap' = r.heap
            /\ conversation_history' = SomeList(r.items)
            /\ returned' = [alias |-> "caller", items |-> r.items]
    /\ UNCHANGED <<budget, events>>
    /\ UNCHANGED <<limVars, fsVars, stoVars, promptVars, httpVars, hashVars>>

\* A direct call of truncate_tool_messages(conversation_history, tool_size)
\* on the caller's own list; it returns None.
TruncateToolMessages ==
    /\ call.op = "none"
    /\ \E msgs \in Histories, tool_size \in Budgets :
         LET list == [i \in 1..Len(msgs) |-> i]
         IN /\ call' = [IdleCall EXCEPT !.op = "truncate_tool_messages",
                                         !.tool_size = tool_size]
            /\ before' = [heap |-> msgs, history |-> SomeList(list)]
            /\ heap' = truncate_tool_messages(msgs, list, tool_size)
            /\ conversation_history' = SomeList(list)
    /\ UNCHANGED <<returned, budget, events>>
    /\ UNCHANGED <<limVars, fsVars, stoVars, promptVars, httpVars, hashVars>>

\* The next request: the previous one's objects are gone.
ConvReset ==
    /\ call.op # "none"
    /\ heap' = <<>>
    /\ conversation_history' = NoneList
    /\ returned' = [alias |-> "none", items |-> <<>>]
    /\ call' = IdleCall
    /\ before' = [heap |-> <<>>, history |-> NoneList]
    /\ budget' = NotComputed
    /\ events' = <<>>
    /\ UNCHANGED <<limVars, fsVars, stoVars, promptVars, httpVars, hashVars>>

ConvNext ==
    \/ BuildIssueChatMessages
    \/ BuildChatMessages
    \/ TruncateToolOutputs
    \/ CalculateToolSize
    \/ TruncateAtCalculatedSize
    \/ AddOrUpdateSystemPrompt
    \/ TruncateToolMessages
    \/ ConvReset

\* ------------------------------------------------------ OverflowStorage
\* Characters of tool names and tool call ids: an ASCII letter, a digit, the
\* underscore, the hyphen, path characters, and a non-ASCII letter.
NameChars == {"a", "1", "_", "-", "/", "\\", ".", "é"}

\* Python's \w on str: letters and digits of any script, and the underscore.
IsWordChar(c) == c \in {"a", "1", "_", "é"}

\* Mutant: the pattern lets the path separators through.
Sanitize_KeepsSeparators(name) ==
    [i \in 1..Len(name) |->
        IF IsWordChar(name[i]) \/ name[i] \in {"-", "/", "\\"} THEN name[i] ELSE "_"]

\* re.sub(r"[^\w\-]", "_", name)
Sanitize(name) ==
    [i \in 1..Len(name) |-> IF IsWordChar(name[i]) \/ name[i] = "-" THEN name[i] ELSE "_"]

Extension(is_json) ==
    IF is_json THEN <<".", "j", "s", "o", "n">> ELSE <<".", "t", "x", "t">>

\* f"{safe_name}_{safe_id}{extension}"
FileName(tool_name, tool_call_id, is_json) ==
    Sanitize(tool_name) \o <<"_">> \o Sanitize(tool_call_id) \o Extension(is_json)

\* A Path: None, or <base>/<chat_id>/tool_results
NoDir == [none |-> TRUE, chat |-> 0]
Dir(chat) == [none |-> FALSE, chat |-> chat]

\* An Optional[str] file path: None, or str(tool_results_dir / file)
NoPath == [none |-> TRUE, chat |-> 0, file |-> <<>>]
FilePath(chat, file) == [none |-> FALSE, chat |-> chat, file |-> file]

\* len(str(tool_results_dir / file))
PathLen(path) == BasePathLen + 1 + UuidLen + 1 + ToolResultsLen + 1 + Len(path.file)

\* What file_path.write_text(content, encoding="utf-8") can do.  The directory
\* must exist; the write may be refused, may fail after the file was opened
\* (created empty), or succeed.
WriteOutcomes(fs_dirs, chat) ==
    IF chat \in fs_dirs
    THEN {"ok", "permission_denied", "disk_full", "encode_error"}
    ELSE {"missing_directory"}

WithFile(fs_files, chat, file, content) ==
    {f \in fs_files : ~(f.chat = chat /\ f.file = file)}
    \cup {[chat |-> chat, file |-> file, content |-> content]}

\* Mutant: no try/except, a failed write raises out of save_large_result.
save_large_result_Uncaught(fs_files, tool_results_dir, tool_name, tool_call_id, content, is_json, outcome) ==
    LET file == FileName(tool_name, tool_call_id, is_json)
        chat == tool_results_dir.chat
    IN CASE outcome = "ok" ->
                [path |-> FilePath(chat, file),
                 files |-> WithFile(fs_files, chat, file, content), raised |-> FALSE]
         [] outcome \in {"disk_full", "encode_error"} ->
                [path |-> NoPath,
                 files |-> WithFile(fs_files, chat, file, <<>>), raised |-> TRUE]
         [] OTHER ->
                [path |-> NoPath, files |-> fs_files, raised |-> TRUE]

\* save_large_result: the whole body is in try/except Exception, which logs
\* and returns None.  The result is [path, files, raised].
save_large_result(fs_files, tool_results_dir, tool_name, tool_call_id, content, is_json, outcome) ==
    LET file == FileName(tool_name, tool_call_id, is_json)
        chat == tool_results_dir.chat
    IN CASE outcome = "ok" ->
                [path |-> FilePath(chat, file),
                 files |-> WithFile(fs_files, chat, file, content), raised |-> FALSE]
         [] outcome \in {"disk_full", "encode_error"} ->
                [path |-> NoPath,
                 files |-> WithFile(fs_files, chat, file, <<>>), raised |-> FALSE]
         [] OTHER ->
                [path |-> NoPath, files |-> fs_files, raised |-> FALSE]

\* ------------------------------------------------------- OverflowPolicy
\* result.data: None, a str, or structured data; a str may begin with the
\* boilerplate of a spilled result (`head`).  `text` is what the data
\* stringifies to in non-compact form, `compact` in compact form.
NoHead == [present |-> FALSE, messages_token |-> 0, max_tokens_allowed |-> 0, path |-> NoPath]
NoData == [kind |-> "none", head |-> NoHead, text |-> <<>>, compact |-> <<>>]
StrData(t) == [kind |-> "str", head |-> NoHead, text |-> t, compact |-> t]
JsonData(t) ==
    [kind |-> "json", head |-> NoHead, text |-> t,
     compact |-> [i \in 1..(Len(t) - 1) |-> -i]]

\* result.stringify_data(compact): (text, is_json)
stringify_data(data, compact) ==
    [text |-> IF data.kind = "none" THEN <<>>
              ELSE IF compact THEN data.compact ELSE data.text,
     is_json |-> data.kind = "json"]

\* result.error: None or a str
NoError == [none |-> TRUE, kind |-> "", messages_token |-> 0, max_tokens_allowed |-> 0]
ToolError == [none |-> FALSE, kind |-> "tool_error", messages_token |-> 0, max_tokens_allowed |-> 0]
\* f"{size_info}\nTry to repeat the query but proactively narrow down ..."
NarrowQueryError(messages_token, max_tokens_allowed) ==
    [none |-> FALSE, kind |-> "narrow_query",
     messages_token |-> messages_token, max_tokens_allowed |-> max_tokens_allowed]

\* len(str(n)) for n >= 0
RECURSIVE Digits(_)
Digits(n) == IF n < 10 THEN 1 ELSE 1 + Digits(n \div 10)

\* len(size_info)
SizeInfoLen(messages_token, max_tokens_allowed) ==
    SizeInfoPrefixLen + Digits(messages_token) + 1 + Digits(max_tokens_allowed)
    + SizeInfoSuffixLen

\* boilerplate (lines 61-66) and len(boilerplate)
Boilerplate(messages_token, max_tokens_allowed, path) ==
    [present |-> TRUE, messages_token |-> messages_token,
     max_tokens_allowed |-> max_tokens_allowed, path |-> path]

BoilerplateLen(b) ==
    SizeInfoLen(b.messages_token, b.max_tokens_allowed) + 1
    + SavedToLen + PathLen(b.path) + 1
    + UseBashLineLen + PreviewHeaderLen

\* Mutant: the compact form is what gets stored.
FilesystemData_Compact(data) == stringify_data(data, TRUE)

\* line 51: filesystem_data, is_json = result.stringify_data(compact=False)
FilesystemData(data) == stringify_data(data, FALSE)

\* Mutant: the safety factor is forgotten (4 characters per token).
PreviewBudget_NoSafetyFactor(max_tokens_allowed, boilerplate) ==
    Max(0, max_tokens_allowed * CharsPerToken - BoilerplateLen(boilerplate))

\* Mutant: the length of the boilerplate is not taken off the budget.
PreviewBudget_IgnoresBoilerplate(max_tokens_allowed, boilerplate) ==
    Max(0, max_tokens_allowed * (CharsPerToken \div 2))

\* preview_budget (lines 68-71); chars_per_token / 2 is 2.0
PreviewBudget(max_tokens_allowed, boilerplate) ==
    Max(0, max_tokens_allowed * (CharsPerToken \div 2) - BoilerplateLen(boilerplate))

\* Mutant: only ERROR is exempt, NO_DATA is handled like a SUCCESS.
NotSuccess_OnlyError(result) == result.status = "ERROR"

\* line 40: the result is not a SUCCESS
NotSuccess(result) == result.status # "SUCCESS"

\* Mutant: a message of exactly the limit counts as too large.
Fits_Strict(messages_token, max_tokens_allowed) == messages_token < max_tokens_allowed

\* line 42: the message fits the single-tool limit
Fits(messages_token, max_tokens_allowed) == messages_token <= max_tokens_allowed

\* Mutant: the storage flag is not consulted.
SpilloverAttempted_IgnoresFlag(tool_results_dir, enabled) == ~tool_results_dir.none

\* line 50: tool_results_dir and load_bool("HOLMES_TOOL_RESULT_STORAGE_ENABLED", True)
SpilloverAttempted(tool_results_dir, enabled) == ~tool_results_dir.none /\ enabled

\* Mutant: the count is capped at the limit before it is returned.
ReturnedCount_Capped(messages_token, max_tokens_allowed) ==
    Min(messages_token, max_tokens_allowed)

\* lines 41, 43, 89: return messages_token
ReturnedCount(messages_token, max_tokens_allowed) == messages_token

\* prevent_overly_big_tool_response(tool_call_result, llm, tool_results_dir).
\* messages_token and max_tokens_allowed are what the llm answers (lines 36-38);
\* enabled is load_bool("HOLMES_TOOL_RESULT_STORAGE_ENABLED", True); outcome is
\* what the write does, if it is reached.  The result is
\* [result, ret, raised, files, telemetry, saves].
prevent_overly_big_tool_response(tcr, messages_token, max_tokens_allowed, tool_results_dir, enabled, fs_files, outcome) ==
    LET returns == ReturnedCount(messages_token, max_tokens_allowed)
        unchanged == [result |-> tcr.result, ret |-> returns, raised |-> FALSE,
                      files |-> fs_files, telemetry |-> <<>>, saves |-> 0]
    IN
    IF NotSuccess(tcr.result) THEN unchanged
    ELSE IF Fits(messages_token, max_tokens_allowed) THEN unchanged
    ELSE
      LET attempt == SpilloverAttempted(tool_results_dir, enabled)
          filesystem_data == IF attempt THEN FilesystemData(tcr.result.data)
                             ELSE [text |-> <<>>, is_json |-> FALSE]
          saved == IF attempt
                   THEN save_large_result(fs_files, tool_results_dir, tcr.tool_name,
                                          tcr.tool_call_id, filesystem_data.text,
                                          filesystem_data.is_json, outcome)
                   ELSE [path |-> NoPath, files |-> fs_files, raised |-> FALSE]
          saves == IF attempt THEN 1 ELSE 0
      IN
      IF saved.raised
      THEN [unchanged EXCEPT !.raised = TRUE, !.files = saved.files, !.saves = saves]
      ELSE IF ~saved.path.none
      THEN LET boilerplate == Boilerplate(messages_token, max_tokens_allowed, saved.path)
               preview_budget == PreviewBudget(max_tokens_allowed, boilerplate)
               preview == PySliceTo(filesystem_data.text, preview_budget)
           IN [result |-> [tcr.result EXCEPT
                              !.data = [kind |-> "str", head |-> boilerplate,
                                        text |-> preview, compact |-> preview]],
               ret |-> returns, raised |-> FALSE,
               files |-> saved.files, telemetry |-> <<>>, saves |-> saves]
      ELSE [result |-> [status |-> "ERROR", data |-> NoData,
                        error |-> NarrowQueryError(messages_token, max_tokens_allowed)],
            ret |-> returns, raised |-> FALSE,
            files |-> saved.files,
            telemetry |-> <<[messages_token |-> messages_token,
                             max_tokens_allowed |-> max_tokens_allowed]>>,
            saves |-> saves]

\* --------------------------------------------------- inputs of SpecLimiter
Statuses == {"SUCCESS", "ERROR", "NO_DATA"}
DataValues ==
    {NoData} \cup {StrData(t) : t \in Texts} \cup {JsonData(t) : t \in Texts \ {<<>>}}
ErrorValues == {NoError, ToolError}
ToolNames == {<<"a">>, <<"a", "/">>, <<".", ".", "/", "\\", "é">>}
ToolCallIds == {<<"1">>, <<"-", "/">>}

\* The chat whose directory exists, and one whose directory is gone.
LiveChat == 1
GoneChat == 2
DirArguments == {NoDir, Dir(LiveChat), Dir(GoneChat)}

\* llm.get_max_token_count_for_single_tool(): 0, and the limits around the
\* one at which the preview budget leaves zero (twice the limit reaches the
\* length of the boilerplate).
ShortestBoilerplateLen ==
    BoilerplateLen(Boilerplate(100, 100,
                               FilePath(LiveChat, FileName(<<"a">>, <<"1">>, FALSE))))
TokenLimits ==
    {0} \cup {l \in 0..ShortestBoilerplateLen :
                /\ 2 * l >= ShortestBoilerplateLen
                /\ 2 * l <= ShortestBoilerplateLen + 2 * (MaxOutputLen + 3)}

\* llm.count_tokens(messages=[message]).total_tokens: below, at and above the limit
TokenCountsAround(l) == {0, l, l + 1, 10 * l + 1000}

IdleResult ==
    [tool_name |-> <<>>, tool_call_id |-> <<>>,
     result |-> [status |-> "NO_DATA", data |-> NoData, error |-> NoError]]

IdleLim ==
    [op |-> "none", given |-> IdleResult, messages_token |-> 0, max_tokens_allowed |-> 0,
     tool_results_dir |-> NoDir, enabled |-> TRUE, outcome |-> "none",
     ret |-> 0, raised |-> FALSE, saves |-> 0]

LimStart ==
    /\ tool_call_result = IdleResult
    /\ lim = IdleLim
    /\ telemetry = <<>>

FsStart ==
    /\ dirs = {LiveChat}
    /\ files = {}

\* ------------------------------------------------------------ SpecLimiter
PreventOverlyBigToolResponse ==
    /\ lim.op = "none"
    /\ \E status \in Statuses, data \in DataValues, error \in ErrorValues,
          tool_name \in ToolNames, tool_call_id \in ToolCallIds,
          max_tokens_allowed \in TokenLimits, tool_results_dir \in DirArguments,
          enabled \in BOOLEAN :
         \E messages_token \in TokenCountsAround(max_tokens_allowed),
            outcome \in WriteOutcomes(dirs, tool_results_dir.chat) :
            LET tcr == [tool_name |-> tool_name, tool_call_id |-> tool_call_id,
                        result |-> [status |-> status, data |-> data, error |-> error]]
                r == prevent_overly_big_tool_response(
                        tcr, messages_token, max_tokens_allowed, tool_results_dir,
                        enabled, files, outcome)
            IN /\ tool_call_result' = [tcr EXCEPT !.result = r.result]
               /\ lim' = [op |-> "prevent_overly_big_tool_response", given |-> tcr,
                          messages_token |-> messages_token,
                          max_tokens_allowed |-> max_tokens_allowed,
                          tool_results_dir |-> tool_results_dir, enabled |-> enabled,
                          outcome |-> IF r.saves = 0 THEN "none" ELSE outcome,
                          ret |-> r.ret, raised |-> r.raised, saves |-> r.saves]
               /\ telemetry' = telemetry \o r.telemetry
               /\ files' = r.files
    /\ UNCHANGED <<dirs, convVars, stoVars, promptVars, httpVars, hashVars>>

\* The next tool call, in a fresh scratch directory.
LimReset ==
    /\ lim.op # "none"
    /\ tool_call_result' = IdleResult
    /\ lim' = IdleLim
    /\ telemetry' = <<>>
    /\ files' = {}
    /\ UNCHANGED <<dirs, convVars, stoVars, promptVars, httpVars, hashVars>>

LimNext ==
    \/ PreventOverlyBigToolResponse
    \/ LimReset

\* ------------------------------------------------- tool_result_storage()
\* The uses of the context manager that run side by side, and the values
\* uuid.uuid4() can take.
ScopeIds == {1, 2}
ChatIds == {1, 2}

\* A scope is "out" (not entered), "body" (inside the with block), "exited",
\* or "enter_failed" (mkdir raised before the yield).  `saved` holds, for each
\* tool call the body saved, the content of its latest save and the path
\* save_large_result returned for it; a tool call whose latest save failed
\* has no record.  `peers` holds, for an exited scope, the scopes that were
\* inside their with block and had files when its finally block ran.
OutScope ==
    [pc |-> "out", chat |-> 0, saves |-> 0, last_path |-> NoPath, how |-> "none",
     rmtree |-> "none", propagates |-> "none", warned |-> FALSE, saved |-> {},
     peers |-> {}]

\* The overflow records of a scope after a save that returned `path`.
Recorded(saved, tool_name, tool_call_id, content, path) ==
    {e \in saved : ~(e.tool_name = tool_name /\ e.tool_call_id = tool_call_id)}
    \cup (IF path.none THEN {}
          ELSE {[tool_name |-> tool_name, tool_call_id |-> tool_call_id,
                 content |-> content, path |-> path]})

StoStart == scopes = [s \in ScopeIds |-> OutScope]

FilesOf(fs_files, chat) == {f \in fs_files : f.chat = chat}

\* What leaves the with statement when the body ended `how`.
BodyPropagates(how) ==
    CASE how = "normal" -> "nothing"
      [] how = "raised" -> "body_exception"
      [] how = "cancelled" -> "cancellation"

\* Mutant: the cleanup follows the yield without try/finally, so it runs only
\* when the body ended normally.
Cleanup_NoFinally(fs_dirs, fs_files, chat, how, rm) ==
    IF how # "normal"
    THEN [dirs |-> fs_dirs, files |-> fs_files, rmtree |-> "none",
          propagates |-> BodyPropagates(how), warned |-> FALSE]
    ELSE IF rm = "ok"
    THEN [dirs |-> fs_dirs \ {chat}, files |-> fs_files \ FilesOf(fs_files, chat),
          rmtree |-> rm, propagates |-> BodyPropagates(how), warned |-> FALSE]
    ELSE [dirs |-> fs_dirs, files |-> fs_files,
          rmtree |-> rm, propagates |-> BodyPropagates(how), warned |-> TRUE]

\* Mutant: shutil.rmtree is not wrapped in try/except.
Cleanup_Uncaught(fs_dirs, fs_files, chat, how, rm) ==
    IF rm = "ok"
    THEN [dirs |-> fs_dirs \ {chat}, files |-> fs_files \ FilesOf(fs_files, chat),
          rmtree |-> rm, propagates |-> BodyPropagates(how), warned |-> FALSE]
    ELSE [dirs |-> fs_dirs,
          files |-> IF rm = "failed_after_files" THEN fs_files \ FilesOf(fs_files, chat)
                    ELSE fs_files,
          rmtree |-> rm, propagates |-> "cleanup_error", warned |-> FALSE]

\* Mutant: the finally block removes the base directory, not chat_root.
Cleanup_RemovesBase(fs_dirs, fs_files, chat, how, rm) ==
    IF rm = "ok"
    THEN [dirs |-> {}, files |-> {},
          rmtree |-> rm, propagates |-> BodyPropagates(how), warned |-> FALSE]
    ELSE [dirs |-> fs_dirs,
          files |-> IF rm = "failed_after_files" THEN {} ELSE fs_files,
          rmtree |-> rm, propagates |-> BodyPropagates(how), warned |-> TRUE]

\* The finally block (lines 31-37): shutil.rmtree(chat_root) removes the
\* directory and everything in it, or fails (before or after removing the
\* files); a failure is logged as a warning and swallowed.
Cleanup(fs_dirs, fs_files, chat, how, rm) ==
    IF rm = "ok"
    THEN [dirs |-> fs_dirs \ {chat}, files |-> fs_files \ FilesOf(fs_files, chat),
          rmtree |-> rm, propagates |-> BodyPropagates(how), warned |-> FALSE]
    ELSE [dirs |-> fs_dirs,
          files |-> IF rm = "failed_after_files" THEN fs_files \ FilesOf(fs_files, chat)
                    ELSE fs_files,
          rmtree |-> rm, propagates |-> BodyPropagates(how), warned |-> TRUE]

RmtreeOutcomes == {"ok", "failed", "failed_after_files"}
BodyEnds == {"normal", "raised", "cancelled"}

\* The tool calls saved in SpecStorage.  A tool call has one result: the
\* content passed for it is a text that differs from call to call.
SavedNames == {<<"a">>, <<"a", "/">>, <<"a", "_">>}
SavedIds == {<<"1">>}
ResultOf(tool_name, tool_call_id) == tool_name \o <<":">> \o tool_call_id

\* The ids uuid4 has given out: it does not give the same id twice.
UsedChats == {scopes[s].chat : s \in ScopeIds}

\* The other scopes that are inside their with block and have files.
OpenPeers(s) ==
    {t \in ScopeIds \ {s} :
        scopes[t].pc = "body" /\ FilesOf(files, scopes[t].chat) # {}}

\* ------------------------------------------------------------ SpecStorage
\* Lines 25-30: a fresh uuid4, mkdir(parents=True, exist_ok=True), yield.
EnterScope(s) ==
    /\ scopes[s].pc = "out"
    /\ \E chat \in ChatIds \ UsedChats, ok \in BOOLEAN :
         IF ok
         THEN /\ dirs' = dirs \cup {chat}
              /\ scopes' = [scopes EXCEPT ![s] = [OutScope EXCEPT !.pc = "body", !.chat = chat]]
         ELSE /\ dirs' = dirs
              /\ scopes' = [scopes EXCEPT ![s] = [OutScope EXCEPT !.pc = "enter_failed"]]
    /\ UNCHANGED <<files, convVars, limVars, promptVars, httpVars, hashVars>>

\* save_large_result called in the body with the scope's directory.
SaveLargeResult(s) ==
    /\ scopes[s].pc = "body"
    /\ scopes[s].saves < MaxSaves
    /\ \E tool_name \in SavedNames, tool_call_id \in SavedIds, is_json \in {FALSE},
          outcome \in WriteOutcomes(dirs, scopes[s].chat) :
         LET content == ResultOf(tool_name, tool_call_id)
             r == save_large_result(files, Dir(scopes[s].chat), tool_name,
                                    tool_call_id, content, is_json, outcome)
         IN /\ files' = r.files
            /\ scopes' = [scopes EXCEPT
                             ![s].saves = @ + 1, ![s].last_path = r.path,
                             ![s].saved = Recorded(@, tool_name, tool_call_id,
                                                   content, r.path)]
    /\ UNCHANGED <<dirs, convVars, limVars, promptVars, httpVars, hashVars>>

\* The body ends (normally, by an exception, or cancelled) and the finally
\* block runs.  The body's overflow records end with the body.
ExitScope(s) ==
    /\ scopes[s].pc = "body"
    /\ \E how \in BodyEnds, rm \in RmtreeOutcomes :
         LET r == Cleanup(dirs, files, scopes[s].chat, how, rm)
         IN /\ dirs' = r.dirs
            /\ files' = r.files
            /\ scopes' = [scopes EXCEPT ![s].pc = "exited", ![s].how = how,
                                        ![s].rmtree = r.rmtree,
                                        ![s].propagates = r.propagates,
                                        ![s].warned = r.warned,
                                        ![s].peers = OpenPeers(s),
                                        ![s].saved = {}]
    /\ UNCHANGED <<convVars, limVars, promptVars, httpVars, hashVars>>

StoNext ==
    \E s \in ScopeIds :
        \/ EnterScope(s)
        \/ SaveLargeResult(s)
        \/ ExitScope(s)

\* ------------------------------------------------- prompt components
\* PromptComponent values the calls are made for.
Components == {"files", "intro"}

\* ENABLED_PROMPTS: not set, or a string, held as its pieces between commas.
\* A piece is a name written plainly, with blanks around it, or in capitals.
EnvNames == {"", "none", "files", "intro"}
EnvForms == {"plain", "padded", "capitals"}
EnvPieces == [name : EnvNames, form : EnvForms]
EnvNotSet == [set |-> FALSE, pieces |-> <<>>]
EnvString(pieces) == [set |-> TRUE, pieces |-> pieces]
EnvValues ==
    {EnvNotSet} \cup {EnvString(ps) : ps \in SeqsUpTo(EnvPieces, MaxEnvPieces) \ {<<>>}}

\* os.environ.get("ENABLED_PROMPTS", "")
EnvGet(env) == IF env.set THEN env.pieces ELSE <<[name |-> "", form |-> "plain"]>>

\* `not enabled_prompts`: the string has no character at all.
IsEmptyString(pieces) ==
    Len(pieces) = 1 /\ pieces[1].name = "" /\ pieces[1].form # "padded"

\* s.lower(): capitals become plain, blanks stay.
Lower(piece) == IF piece.form = "capitals" THEN [piece EXCEPT !.form = "plain"] ELSE piece

\* s.strip().lower(): the bare name.
StripLower(piece) == piece.name

\* is_prompt_allowed_by_env(component), lines 73-90
is_prompt_allowed_by_env(env, component) ==
    LET enabled_prompts == EnvGet(env)
    IN IF IsEmptyString(enabled_prompts) THEN TRUE
       ELSE IF Len(enabled_prompts) = 1
               /\ Lower(enabled_prompts[1]) = [name |-> "none", form |-> "plain"]
       THEN FALSE
       ELSE \E i \in 1..Len(enabled_prompts) : StripLower(enabled_prompts[i]) = component

\* overrides: None, or a dict from components to bool.
NoOverrides == [none |-> TRUE, map |-> <<>>]
Overrides(map) == [none |-> FALSE, map |-> map]
OverrideValues ==
    {NoOverrides}
    \cup {Overrides(f) : f \in UNION {[D -> BOOLEAN] : D \in SUBSET Components}}

\* Mutant: the API override is looked at before the environment.
is_component_enabled_OverrideFirst(env, component, overrides) ==
    IF ~overrides.none /\ component \in DOMAIN overrides.map
    THEN overrides.map[component]
    ELSE is_prompt_allowed_by_env(env, component)

\* is_component_enabled(component, overrides), lines 93-109; an empty dict
\* has no key, so `overrides and component in overrides` is the membership.
is_component_enabled(env, component, overrides) ==
    LET env_allowed == is_prompt_allowed_by_env(env, component)
    IN IF ~env_allowed THEN FALSE
       ELSE IF ~overrides.none /\ component \in DOMAIN overrides.map
       THEN overrides.map[component]
       ELSE TRUE

IdleComponentCall ==
    [op |-> "none", env |-> EnvNotSet, component |-> "", overrides |-> NoOverrides,
     result |-> FALSE]

PromptStart == component_call = IdleComponentCall

\* ------------------------------------------------------------ SpecPrompt
IsComponentEnabled ==
    /\ component_call.op = "none"
    /\ \E env \in EnvValues, component \in Components, overrides \in OverrideValues :
         component_call' =
             [op |-> "is_component_enabled", env |-> env, component |-> component,
              overrides |-> overrides,
              result |-> is_component_enabled(env, component, overrides)]
    /\ UNCHANGED <<convVars, limVars, fsVars, stoVars, httpVars, hashVars>>

PromptReset ==
    /\ component_call.op # "none"
    /\ component_call' = IdleComponentCall
    /\ UNCHANGED <<convVars, limVars, fsVars, stoVars, httpVars, hashVars>>

PromptNext ==
    \/ IsComponentEnabled
    \/ PromptReset

\* ------------------------------------------------------- http toolset
ALL_METHODS == {"GET", "POST", "PUT", "PATCH", "DELETE", "HEAD", "OPTIONS"}

\* A host name is its labels and whether it is written in capitals; a host
\* pattern is a host name, or "*." followed by one.
Host(labels, capitals) == [labels |-> labels, capitals |-> capitals]
HostPattern(wildcard, labels) == [wildcard |-> wildcard, labels |-> labels, capitals |-> FALSE]

\* host.lower()
LowerHost(h) == h.labels

\* _match_host: "*.x" matches a host that ends with ".x", else the names
\* are compared without regard to case.
MatchHost(host, pattern) ==
    IF pattern.wildcard
    THEN /\ Len(host.labels) > Len(pattern.labels)
         /\ SubSeq(LowerHost(host), Len(host.labels) - Len(pattern.labels) + 1,
                    Len(host.labels)) = LowerHost(pattern)
    ELSE LowerHost(host) = LowerHost(pattern)

\* A path is the segments that follow each "/": "" is <<>>, "/" is <<"">>,
\* "/api/v1" is <<"api", "v1">>.  A path pattern is "*", or a path with or
\* without a trailing "/*".
AnyPath == [any |-> TRUE, segments |-> <<>>, star |-> FALSE]
PathGlob(segments, star) == [any |-> FALSE, segments |-> segments, star |-> star]

\* fnmatch.fnmatch(path, pattern); "*" also matches "/"
FnMatch(path, pattern) ==
    IF pattern.star
    THEN /\ Len(path) > Len(pattern.segments)
         /\ SubSeq(path, 1, Len(pattern.segments)) = pattern.segments
    ELSE path = pattern.segments

\* _match_path
MatchPath(path, patterns) ==
    \E i \in 1..Len(patterns) : patterns[i].any \/ FnMatch(path, patterns[i])

\* A url: whether urlparse finds a scheme and a netloc, its host, its path.
Url(wellformed, host, path) == [wellformed |-> wellformed, host |-> host, path |-> path]

\* parsed.path or "/"
PathOrRoot(path) == IF path = <<>> THEN <<"">> ELSE path

\* Method names: m.upper() / method.upper()
Upper(method) ==
    CASE method = "get" -> "GET"
      [] method = "post" -> "POST"
      [] method = "foobar" -> "FOOBAR"
      [] OTHER -> method

\* EndpointConfig.get_methods()
GetMethods(endpoint) == {Upper(endpoint.methods[i]) : i \in 1..Len(endpoint.methods)}

\* match_endpoint(url): the first endpoint, in configuration order, one of
\* whose hosts and one of whose paths match; 0 when there is none.
MatchingEndpoints(endpoints, url) ==
    {e \in 1..Len(endpoints) :
        /\ \E i \in 1..Len(endpoints[e].hosts) : MatchHost(url.host, endpoints[e].hosts[i])
        /\ MatchPath(PathOrRoot(url.path), endpoints[e].paths)}

Least(S) == CHOOSE x \in S : \A y \in S : x <= y

match_endpoint(endpoints, url) ==
    IF ~url.wellformed THEN [endpoint |-> 0, error |-> "invalid_url_format"]
    ELSE IF MatchingEndpoints(endpoints, url) = {}
    THEN [endpoint |-> 0, error |-> "url_not_in_whitelist"]
    ELSE [endpoint |-> Least(MatchingEndpoints(endpoints, url)), error |-> "none"]

\* Mutant: every supported method is allowed on every endpoint.
is_method_allowed_Always(method, endpoint) == TRUE

\* is_method_allowed(method, endpoint)
is_method_allowed(method, endpoint) == Upper(method) \in GetMethods(endpoint)

\* params.get("method", "GET").upper(); method is [given, value]
MethodOf(method) == IF method.given THEN Upper(method.value) ELSE "GET"

\* What json.loads and isinstance(..., dict) make of the headers string.
HeaderKinds == {"absent", "empty", "object", "list", "primitive", "invalid"}

\* JsonFilterMixin.filter_result(result, params): the result as it is when
\* no filter is asked for, filtered data, or an error of the filter.
FilterOutcomes == {"no_filter", "filtered", "filter_error"}
filter_result(result, filter) ==
    CASE filter = "no_filter" -> result
      [] filter = "filtered" -> [result EXCEPT !.filtered = TRUE]
      [] OTHER -> [status |-> "ERROR", error |-> "filter_error", filtered |-> FALSE]

\* What requests.request does with a request that is made.
ResponseOutcomes == {"ok", "not_ok", "timeout", "connection_error", "exception"}

HttpError(error) == [status |-> "ERROR", error |-> error, filtered |-> FALSE]
NotSent(result) == [result |-> result, sent |-> <<>>]

\* HttpRequest._invoke(params, context), lines 384-487.  The result is
\* [result, sent]: the StructuredToolResult and the requests made.
_invoke(endpoints, url, method, headers, response, filter) ==
    LET matched == match_endpoint(endpoints, url)
        request == [method |-> MethodOf(method), url |-> url]
    IN IF matched.error # "none" \/ matched.endpoint = 0
       THEN NotSent(HttpError(matched.error))
       ELSE IF MethodOf(method) \notin ALL_METHODS
       THEN NotSent(HttpError("unsupported_method"))
       ELSE IF ~is_method_allowed(MethodOf(method), endpoints[matched.endpoint])
       THEN NotSent(HttpError("method_not_allowed"))
       ELSE IF headers \in {"list", "primitive"}
       THEN NotSent(HttpError("headers_not_object"))
       ELSE IF headers = "invalid"
       THEN NotSent(HttpError("invalid_headers_json"))
       ELSE [sent |-> <<request>>,
             result |->
                CASE response = "ok" ->
                        filter_result([status |-> "SUCCESS", error |-> "none",
                                       filtered |-> FALSE], filter)
                  [] response = "not_ok" -> filter_result(HttpError("http_status"), filter)
                  [] response = "timeout" -> HttpError("timed_out")
                  [] response = "connection_error" -> HttpError("connection_error")
                  [] OTHER -> HttpError("request_failed")]

\* ---------------------------------------------------- inputs of SpecHttp
ApiHost == <<"api", "example", "com">>
ExampleHost == <<"example", "com">>
Hosts ==
    {Host(ApiHost, FALSE), Host(ApiHost, TRUE), Host(ExampleHost, FALSE),
     Host(<<"evil", "com">>, FALSE), Host(ApiHost \o <<"evil", "com">>, FALSE)}
Paths == {<<>>, <<"">>, <<"api">>, <<"api", "v1">>, <<"admin">>}
Urls == {Url(w, h, p) : w \in BOOLEAN, h \in Hosts, p \in Paths}

\* One endpoint with the defaults (every path, GET only), and one for the
\* hosts under example.com, paths under /api/, GET and post.
DefaultEndpoint ==
    [hosts |-> <<HostPattern(FALSE, ApiHost)>>, paths |-> <<AnyPath>>, methods |-> <<"GET">>]
ApiEndpoint ==
    [hosts |-> <<HostPattern(TRUE, ExampleHost)>>,
     paths |-> <<PathGlob(<<"api">>, TRUE)>>, methods |-> <<"GET", "post">>]
EndpointLists ==
    {<<>>, <<DefaultEndpoint>>, <<ApiEndpoint>>,
     <<DefaultEndpoint, ApiEndpoint>>, <<ApiEndpoint, DefaultEndpoint>>}

NotGiven == [given |-> FALSE, value |-> ""]
Methods == {NotGiven} \cup {[given |-> TRUE, value |-> m] : m \in {"GET", "get", "post", "DELETE", "foobar"}}

IdleHttpCall ==
    [op |-> "none", endpoints |-> <<>>, url |-> Url(FALSE, Host(<<>>, FALSE), <<>>),
     method |-> NotGiven, headers |-> "absent",
     result |-> [status |-> "NO_DATA", error |-> "none", filtered |-> FALSE]]

HttpStart ==
    /\ http_call = IdleHttpCall
    /\ sent = <<>>

\* -------------------------------------------------------------- SpecHttp
Invoke ==
    /\ http_call.op = "none"
    /\ \E endpoints \in EndpointLists, url \in Urls, method \in Methods,
          headers \in HeaderKinds, response \in ResponseOutcomes,
          filter \in FilterOutcomes :
         LET r == _invoke(endpoints, url, method, headers, response, filter)
         IN /\ http_call' = [op |-> "_invoke", endpoints |-> endpoints, url |-> url,
                             method |-> method, headers |-> headers,
                             result |-> r.result]
            /\ sent' = sent \o r.sent
    /\ UNCHANGED <<convVars, limVars, fsVars, stoVars, promptVars, hashVars>>

HttpReset ==
    /\ http_call.op # "none"
    /\ http_call' = IdleHttpCall
    /\ sent' = <<>>
    /\ UNCHANGED <<convVars, limVars, fsVars, stoVars, promptVars, hashVars>>

HttpNext ==
    \/ Invoke
    \/ HttpReset

\* ------------------------------------------------------- config hashes
\* The entries file_paths can hold: the empty string, a relative and an
\* absolute spelling of one file, and a second file.
PathArgs == {"", "a.yaml", "/cwd/a.yaml", "/cwd/b.yaml"}

\* os.path.abspath(file_path), the working directory being /cwd
AbsPath(file_path) == IF file_path = "a.yaml" THEN "/cwd/a.yaml" ELSE file_path

ConfigPaths == {AbsPath(file_path) : file_path \in PathArgs \ {""}}
ConfigContents == {"x", "y"}

\* A config file is absent, present but not readable, or readable.
NoFile == [kind |-> "absent", content |-> ""]
UnreadableFile == [kind |-> "unreadable", content |-> ""]
ReadableFile(content) == [kind |-> "file", content |-> content]
FileStates == {NoFile, UnreadableFile} \cup {ReadableFile(c) : c \in ConfigContents}

\* hashlib.sha1(content).hexdigest(): contents that differ get digests that differ.
Sha1(content) == <<"sha1", content>>

\* Optional[str]
NoHash == [none |-> TRUE, value |-> <<>>]

\* compute_file_hash: the digest, or None when the file cannot be read.
compute_file_hash(fs, file_path) ==
    IF fs[file_path].kind = "file"
    THEN [none |-> FALSE, value |-> Sha1(fs[file_path].content)]
    ELSE NoHash

\* A dict[str, str] over the config paths: a path maps to its digest, or to
\* Missing when the dict has no such key.
Missing == <<>>
EmptyDict == [p \in ConfigPaths |-> Missing]
Keys(dict) == {p \in ConfigPaths : dict[p] # Missing}

\* The file at hash_file_path: absent, not readable, not JSON, or the JSON
\* save_config_hashes wrote.
NoHashFile == [kind |-> "absent", hashes |-> EmptyDict]
BrokenHashFile(kind) == [kind |-> kind, hashes |-> EmptyDict]
JsonHashFile(hashes) == [kind |-> "json", hashes |-> hashes]
BrokenKinds == {"absent", "unreadable", "corrupt"}

\* load_config_hashes: {} when the file is absent, or json.load raised
\* JSONDecodeError or IOError.
load_config_hashes(hf) == IF hf.kind = "json" THEN hf.hashes ELSE EmptyDict

\* save_config_hashes: every exception is logged and swallowed.  The write
\* succeeds, fails before the file is opened, or fails after open(..., "w")
\* truncated it.
SaveOutcomes == {"ok", "failed", "failed_after_open"}

save_config_hashes(hf, hashes, outcome) ==
    CASE outcome = "ok" -> JsonHashFile(hashes)
      [] outcome = "failed" -> hf
      [] outcome = "failed_after_open" -> BrokenHashFile("corrupt")

\* os.path.exists(file_path)
Exists(fs, file_path) == fs[AbsPath(file_path)].kind # "absent"

\* Lines 69-79: the loop over file_paths; acc is [current, changed].
RECURSIVE ScanFiles(_, _, _, _)
ScanFiles(file_paths, fs, stored, acc) ==
    IF file_paths = <<>> THEN acc
    ELSE LET file_path == Head(file_paths)
             abs_path == AbsPath(file_path)
             file_hash == compute_file_hash(fs, abs_path)
             next == IF file_path = "" \/ ~Exists(fs, file_path) THEN acc
                     ELSE IF file_hash.none THEN acc
                     ELSE [current |-> [acc.current EXCEPT ![abs_path] = file_hash.value],
                           changed |-> \/ acc.changed
                                       \/ abs_path \notin Keys(stored)
                                       \/ stored[abs_path] # file_hash.value]
         IN ScanFiles(Tail(file_paths), fs, stored, next)

\* Mutant: the loop over the stored paths is left out.
TrackedRemoved_Never(stored, current) == FALSE

\* Lines 82-85: a stored path that is not in current_hashes.
TrackedRemoved(stored, current) == \E stored_path \in Keys(stored) : stored_path \notin Keys(current)

\* check_and_update_config_hashes: [returned, hash_file, saved]
check_and_update_config_hashes(file_paths, fs, hf, outcome) ==
    LET stored_hashes == load_config_hashes(hf)
        scan == ScanFiles(file_paths, fs, stored_hashes,
                          [current |-> EmptyDict, changed |-> FALSE])
        changed == scan.changed \/ TrackedRemoved(stored_hashes, scan.current)
    IN IF changed
       THEN [returned |-> TRUE, saved |-> outcome,
             hash_file |-> save_config_hashes(hf, scan.current, outcome)]
       ELSE [returned |-> FALSE, saved |-> "none", hash_file |-> hf]

\* The absolute paths that file_paths names.
Listed(file_paths) ==
    {AbsPath(file_paths[i]) : i \in {j \in 1..Len(file_paths) : file_paths[j] # ""}}

\* The record of a call keeps the files that file_paths named.  `touched`
\* tells that a config file or the hash file was changed from outside after
\* the call; `repeat` that the call came after a call naming the same files
\* whose save succeeded, nothing having been touched between.
IdleHashCall ==
    [op |-> "none", listed |-> {}, returned |-> FALSE, saved |-> "none",
     repeat |-> FALSE, touched |-> FALSE]

HashStart ==
    /\ config_files = [p \in ConfigPaths |-> NoFile]
    /\ hash_file = NoHashFile
    /\ hash_call = IdleHashCall

\* ---------------------------------------------------------------- SpecHash
CheckAndUpdateConfigHashes ==
    /\ \E file_paths \in SeqsUpTo(PathArgs, MaxFilePaths), outcome \in SaveOutcomes :
         LET r == check_and_update_config_hashes(file_paths, config_files,
                                                 hash_file, outcome)
         IN /\ hash_file' = r.hash_file
            /\ hash_call' =
                 [op |-> "check_and_update_config_hashes", listed |-> Listed(file_paths),
                  returned |-> r.returned, saved |-> r.saved,
                  repeat |-> /\ hash_call.op = "check_and_update_config_hashes"
                             /\ hash_call.saved = "ok"
                             /\ ~hash_call.touched
                             /\ hash_call.listed = Listed(file_paths),
                  touched |-> FALSE]
    /\ UNCHANGED <<config_files, convVars, limVars, fsVars, stoVars, promptVars, httpVars>>

\* A config file is written, removed, or has its permissions changed.
ChangeConfigFile ==
    /\ \E p \in ConfigPaths :
         \E file \in FileStates \ {config_files[p]} :
            config_files' = [config_files EXCEPT ![p] = file]
    /\ hash_call' = [hash_call EXCEPT !.touched = TRUE]
    /\ UNCHANGED <<hash_file, convVars, limVars, fsVars, stoVars, promptVars, httpVars>>

\* The hash file is removed, made unreadable, or damaged.
BreakHashFile ==
    /\ \E kind \in BrokenKinds \ {hash_file.kind} :
         hash_file' = BrokenHashFile(kind)
    /\ hash_call' = [hash_call EXCEPT !.touched = TRUE]
    /\ UNCHANGED <<config_files, convVars, limVars, fsVars, stoVars, promptVars, httpVars>>

HashNext ==
    \/ CheckAndUpdateConfigHashes
    \/ ChangeConfigFile
    \/ BreakHashFile

\* ------------------------------------------------------ specifications
BaseInit == ConvStart /\ LimStart /\ StoStart /\ PromptStart /\ HttpStart /\ HashStart

ConvInit == BaseInit /\ FsStart

SpecConv == ConvInit /\ [][ConvNext]_vars

LimInit == BaseInit /\ FsStart

SpecLimiter == LimInit /\ [][LimNext]_vars

StoInit ==
    /\ BaseInit
    /\ dirs = {}
    /\ files = {}

SpecStorage == StoInit /\ [][StoNext]_vars

PromptInit == BaseInit /\ FsStart

SpecPrompt == PromptInit /\ [][PromptNext]_vars

HttpInit == BaseInit /\ FsStart

SpecHttp == HttpInit /\ [][HttpNext]_vars

HashInit == BaseInit /\ FsStart

SpecHash == HashInit /\ [][HashNext]_vars

\* ------------------------------------------------------ claims, SpecConv
\* C1: whenever build_issue_chat_messages or build_chat_messages computes a
\* budget with calculate_tool_size (one tool slot or more), the budget they
\* pass on to truncate_tool_outputs and truncate_tool_messages is >= 0, also
\* when tokens_used plus the reserved output tokens exceeds the window.
C1_BudgetNeverNegative ==
    budget.computed => budget.value >= 0

\* C2: every result of truncate_tool_outputs(tools, tool_size) has an output
\* of length <= max(tool_size, 0), for a positive, zero or negative tool_size.
C2_OutputLengthWithinClampedBudget ==
    call.op = "truncate_tool_outputs" =>
        \A i \in 1..Len(call.outputs) :
            Len(call.outputs[i].output) <= Max(call.tool_size, 0)

\* calculate_tool_size was called directly (and perhaps its size then used).
Calculated == call.op \in {"calculate_tool_size", "calculate_then_truncate"}

\* context_window_size - tokens_used - reserved_output_tokens of the call
Available == call.llm.context_window - call.tokens - call.llm.maximum_output_token

\* The call with window 8000, 2000 tokens used, 1000 reserved and 5 slots.
IsExampleCall ==
    /\ Calculated
    /\ call.llm = [context_window |-> 8000, maximum_output_token |-> 1000]
    /\ call.tokens = 2000
    /\ call.number_of_tools = 5

\* With no slot the size is 10000 and the token accountant is not asked; the
\* example call gives 1000, and 5000-character outputs are cut to 1000.
ZeroSlotsAndExample ==
    /\ call.number_of_tools = 0 =>
          call.tool_size = 10000 /\ call.count_tokens_calls = 0
    /\ IsExampleCall =>
          /\ call.tool_size = 1000
          /\ call.op = "calculate_then_truncate" =>
                \A i \in 1..Len(call.tools) :
                    Len(call.tools[i].output) = 5000
                        => call.outputs[i].output = SubSeq(call.tools[i].output, 1, 1000)

C16_MoreSlotsNeverMoreBudget ==
    (call.op = "calculate_tool_size" /\ call.prev.computed) =>
        /\ call.number_of_tools > call.prev_tools
        /\ call.tool_size <= call.prev.value

\* The positions of the system-role messages of a list of cells of heap h.
SystemPositions(h, list) == {i \in 1..Len(list) : h[list[i]].role = "system"}

\* add_or_update_system_prompt was called directly with a prompt / with None.
PromptGiven == call.op = "add_or_update_system_prompt" /\ ~call.system_prompt_none
PromptNone == call.op = "add_or_update_system_prompt" /\ call.system_prompt_none

\* The caller's list and every message object are as they were.
HistoryUntouched ==
    /\ conversation_history = before.history
    /\ heap = before.heap

\* C17: add_or_update_system_prompt returns the list it was given; with
\* prompt None nothing changes; an empty history gets one system message
\* holding the prompt; a history starting with a system message has only that
\* message's content overwritten; otherwise a system message anywhere else
\* leaves the history untouched, and without one a new system message is
\* inserted at position 0 with the prior messages following in order.
C17_SystemPromptCases ==
    LET old == before.history.items
        new == conversation_history.items
    IN
    /\ call.op = "add_or_update_system_prompt" =>
          returned = [alias |-> "caller", items |-> new]
    /\ PromptNone => HistoryUntouched
    /\ (PromptGiven /\ Len(old) = 0) =>
          /\ Len(new) = 1
          /\ heap[new[1]] = Msg("system", ChatSystemPrompt)
    /\ (PromptGiven /\ 1 \in SystemPositions(before.heap, old)) =>
          /\ new = old
          /\ heap = [before.heap EXCEPT ![old[1]].content = ChatSystemPrompt]
    /\ (PromptGiven /\ 1 \notin SystemPositions(before.heap, old)
           /\ SystemPositions(before.heap, old) # {}) =>
          HistoryUntouched
    /\ (PromptGiven /\ Len(old) > 0 /\ SystemPositions(before.heap, old) = {}) =>
          /\ Len(new) = Len(old) + 1
          /\ heap[new[1]] = Msg("system", ChatSystemPrompt)
          /\ Tail(new) = old
          /\ \A i \in 1..Len(before.heap) : heap[i] = before.heap[i]

\* A prompt was given for a history whose only system message is not first.
C17_Witness ==
    /\ PromptGiven
    /\ SystemPositions(before.heap, before.history.items) = {2}
    /\ HistoryUntouched

\* truncate_tool_outputs was called, directly or with a calculated size.
OutputsTruncated == call.op \in {"truncate_tool_outputs", "calculate_then_truncate"}

\* C18: truncate_tool_outputs leaves the given list and tool results as they
\* were, and returns a list of the same length and order whose elements have
\* the names and descriptions of the given ones.
C18_InputNotMutated ==
    OutputsTruncated =>
        /\ call.tools_after = call.tools
        /\ Len(call.outputs) = Len(call.tools)
        /\ \A i \in 1..Len(call.tools) :
              /\ call.outputs[i].name = call.tools[i].name
              /\ call.outputs[i].description = call.tools[i].description

\* A full list was truncated and an output came back shorter than given.
C18_Witness ==
    /\ call.op = "truncate_tool_outputs"
    /\ Len(call.tools) = MaxTools
    /\ \E i \in 1..Len(call.tools) :
          /\ Len(call.outputs[i].output) < Len(call.tools[i].output)
          /\ Len(call.tools_after[i].output) = Len(call.tools[i].output)

\* C19 as stated: truncate_tool_messages works in place: the list is the
\* same, every tool message's content is the first `budget` characters of
\* what it was, and every other message and every role is unchanged.
C19_ToolContentIsFirstBudgetChars ==
    call.op = "truncate_tool_messages" =>
        /\ conversation_history = before.history
        /\ Len(heap) = Len(before.heap)
        /\ \A i \in 1..Len(before.heap) :
              /\ heap[i].role = before.heap[i].role
              /\ before.heap[i].role # "tool" => heap[i] = before.heap[i]
              /\ before.heap[i].role = "tool" =>
                    heap[i].content =
                        PlainText(SubSeq(before.heap[i].content.body, 1,
                                         Min(Max(call.tool_size, 0),
                                             Len(before.heap[i].content.body))))

\* A conversation came out of add_or_update_system_prompt or build_chat_messages.
ChatProduced == call.op \in {"add_or_update_system_prompt", "build_chat_messages"}

\* C20: a conversation that add_or_update_system_prompt or build_chat_messages
\* produces from a history with at most one system message has at most one;
\* when the prompt is not None and the history had none, it has exactly one,
\* at position 0.
C20_AtMostOneSystemMessage ==
    LET was == SystemPositions(before.heap, before.history.items)
        is == SystemPositions(heap, returned.items)
    IN ChatProduced =>
         /\ Cardinality(was) <= 1 => Cardinality(is) <= 1
         /\ (~call.system_prompt_none /\ was = {}) => is = {1}

\* build_chat_messages put the system prompt in front of a non-empty history
\* that had no system message.
C20_Witness ==
    /\ call.op = "build_chat_messages"
    /\ ~call.system_prompt_none
    /\ Len(before.history.items) = MaxHistory
    /\ SystemPositions(before.heap, before.history.items) = {}
    /\ SystemPositions(heap, returned.items) = {1}

\* ---------------------------------------------------- claims, SpecLimiter
Handled == lim.op = "prevent_overly_big_tool_response"

\* The call was given a SUCCESS result whose message exceeds the limit.
Oversized ==
    /\ Handled
    /\ lim.given.result.status = "SUCCESS"
    /\ lim.messages_token > lim.max_tokens_allowed

\* The full text that line 51 stringifies the given data to.
FullText == stringify_data(lim.given.result.data, FALSE).text

\* The path save_large_result builds for the given tool call.
ExpectedPath ==
    FilePath(lim.tool_results_dir.chat,
             FileName(lim.given.tool_name, lim.given.tool_call_id,
                      lim.given.result.data.kind = "json"))

\* The preview budget of the result's own boilerplate, from the source's formula.
BudgetOfResult ==
    LET twice == 2 * lim.max_tokens_allowed
        len == BoilerplateLen(tool_call_result.result.data.head)
    IN IF twice > len THEN twice - len ELSE 0

\* (a) with the preview of any length up to the budget
SpilledWithPreview ==
    /\ tool_call_result.result.status = "SUCCESS"
    /\ tool_call_result.result.data.kind = "str"
    /\ tool_call_result.result.data.head.present
    /\ tool_call_result.result.data.head.path = ExpectedPath
    /\ Len(tool_call_result.result.data.text) <= BudgetOfResult

\* (b)
DroppedWithError ==
    /\ tool_call_result.result.status = "ERROR"
    /\ tool_call_result.result.data = NoData
    /\ ~tool_call_result.result.error.none

\* C3 as stated: after an oversized SUCCESS result is handled, exactly one of
\* (a) SUCCESS with the saved path and a NON-EMPTY preview within the preview
\* budget, (b) ERROR, data None, error non-empty.
C3_SpilledNonEmptyPreviewOrDropped ==
    Oversized =>
        ((SpilledWithPreview /\ Len(tool_call_result.result.data.text) > 0)
            # DroppedWithError)

\* C3 amended: after an oversized SUCCESS result is handled, exactly one of
\* (a) SUCCESS with the saved path and a preview that is the first
\* min(len(text), budget) characters of the stringified data, which is empty
\* when the budget is 0 or the data stringifies to "", (b) ERROR, data None,
\* error non-empty.
C3_SpilledBoundedPreviewOrDropped ==
    Oversized =>
        /\ SpilledWithPreview # DroppedWithError
        /\ SpilledWithPreview =>
              /\ Len(tool_call_result.result.data.text) = Min(Len(FullText), BudgetOfResult)
              /\ tool_call_result.result.data.text
                    = SubSeq(FullText, 1, Len(tool_call_result.result.data.text))

\* C3 witness: a spill whose preview is cut short by a positive budget.
C3_Witness ==
    /\ Oversized
    /\ SpilledWithPreview
    /\ BudgetOfResult > 0
    /\ Len(tool_call_result.result.data.text) = BudgetOfResult
    /\ Len(FullText) > BudgetOfResult

\* C4: a result whose status is not SUCCESS keeps its status, data and error,
\* no file is written and no telemetry event is emitted, whatever the token
\* count and whether or not a directory is supplied.
C4_NonSuccessUntouched ==
    (Handled /\ lim.given.result.status # "SUCCESS") =>
        /\ tool_call_result = lim.given
        /\ files = {}
        /\ lim.saves = 0
        /\ telemetry = <<>>

\* C4 witness: a NO_DATA result over the limit, with a directory and storage enabled.
C4_Witness ==
    /\ Handled
    /\ lim.given.result.status = "NO_DATA"
    /\ lim.messages_token > lim.max_tokens_allowed
    /\ ~lim.tool_results_dir.none
    /\ lim.enabled
    /\ lim.given.result.data # NoData

\* C5: a SUCCESS result whose token count is at most the limit (equal
\* included) is returned with that count and unchanged, and no file is written.
C5_FittingSuccessUntouched ==
    (Handled /\ lim.given.result.status = "SUCCESS"
             /\ lim.messages_token <= lim.max_tokens_allowed) =>
        /\ lim.ret = lim.messages_token
        /\ tool_call_result = lim.given
        /\ files = {}
        /\ lim.saves = 0

\* C5 witness: exactly at the limit, with a directory and storage enabled.
C5_Witness ==
    /\ Handled
    /\ lim.given.result.status = "SUCCESS"
    /\ lim.messages_token = lim.max_tokens_allowed
    /\ lim.max_tokens_allowed > 0
    /\ ~lim.tool_results_dir.none
    /\ lim.enabled

\* C6: on every path the call returns the token count measured on the
\* result before it was changed.
C6_ReturnsOriginalCount ==
    Handled => (~lim.raised /\ lim.ret = lim.messages_token)

\* C6 witness: the result was replaced by pointer and preview, and the count
\* returned is the one above the limit.
C6_Witness ==
    /\ Oversized
    /\ SpilledWithPreview
    /\ tool_call_result # lim.given
    /\ lim.ret > lim.max_tokens_allowed

\* No file path was obtained for an oversized SUCCESS result.
NoPathObtained ==
    /\ Oversized
    /\ \/ lim.tool_results_dir.none
       \/ ~lim.enabled
       \/ lim.outcome # "ok"

\* C7: save_large_result is called only for an oversized SUCCESS result with
\* a directory and the storage flag on; whenever no path is obtained (no
\* directory, flag off, save failed) the result is ERROR, data None, the
\* narrow-your-query error, and exactly one telemetry event is emitted;
\* no other path emits telemetry.
C7_DropPathAndTelemetry ==
    Handled =>
        /\ (lim.saves > 0) = (Oversized /\ ~lim.tool_results_dir.none /\ lim.enabled)
        /\ NoPathObtained =>
              /\ tool_call_result.result.status = "ERROR"
              /\ tool_call_result.result.data = NoData
              /\ tool_call_result.result.error
                    = NarrowQueryError(lim.messages_token, lim.max_tokens_allowed)
              /\ telemetry = <<[messages_token |-> lim.messages_token,
                                max_tokens_allowed |-> lim.max_tokens_allowed]>>
        /\ ~NoPathObtained => telemetry = <<>>

\* C7 witness: a directory is supplied but the flag is off, and the result is dropped.
C7_Witness ==
    /\ Oversized
    /\ ~lim.tool_results_dir.none
    /\ ~lim.enabled
    /\ Len(telemetry) = 1
    /\ tool_call_result.result.status = "ERROR"

PathSeparators == {"/", "\\"}

\* The file named by path `p` lies directly in the scratch directory given to
\* the call: its directory is that one and its name is a single segment.
DirectlyInScratchDir(p) ==
    /\ p.chat = lim.tool_results_dir.chat
    /\ \A i \in 1..Len(p.file) : p.file[i] \notin PathSeparators

\* C11: whatever tool_name and tool_call_id are (slash, backslash and dot-dot
\* segments included), the name of every file save_large_result writes holds
\* no path separator, so the file is directly inside the scratch directory;
\* the path handed back in the boilerplate names that same file.
C11_FileNameHasNoSeparator ==
    Handled =>
        /\ \A f \in files : DirectlyInScratchDir(f)
        /\ tool_call_result.result.data.head.present =>
              /\ DirectlyInScratchDir(tool_call_result.result.data.head.path)
              /\ \E f \in files :
                    /\ f.chat = tool_call_result.result.data.head.path.chat
                    /\ f.file = tool_call_result.result.data.head.path.file

\* A file was written for a tool name made of dot-dot, slash and backslash.
C11_Witness ==
    /\ Handled
    /\ lim.outcome = "ok"
    /\ \E i, j \in 1..Len(lim.given.tool_name) :
          lim.given.tool_name[i] = "/" /\ lim.given.tool_name[j] = "\\"
    /\ \E i \in 1..(Len(lim.given.tool_name) - 1) :
          lim.given.tool_name[i] = "." /\ lim.given.tool_name[i + 1] = "."
    /\ \E f \in files : f.chat = ExpectedPath.chat /\ f.file = ExpectedPath.file

\* The characters of NameChars that are in [A-Za-z0-9_-].
AsciiSafeChars == {"a", "1", "_", "-"}

\* The replacement C12 describes: characters outside [A-Za-z0-9_-] become "_".
AsciiSafe(name) ==
    [i \in 1..Len(name) |-> IF name[i] \in AsciiSafeChars THEN name[i] ELSE "_"]

\* C12 as stated: every file save_large_result writes is named
\* <safe_name>_<safe_id> plus .json or .txt, where safe_name and safe_id are
\* tool_name and tool_call_id with every character outside [A-Za-z0-9_-]
\* replaced by "_" and every character inside it kept, so that the stem holds
\* only characters of [A-Za-z0-9_-].
C12_StemOnlyAsciiSafeChars ==
    Handled =>
        \A f \in files :
            /\ f.file = AsciiSafe(lim.given.tool_name) \o <<"_">>
                        \o AsciiSafe(lim.given.tool_call_id)
                        \o Extension(lim.given.result.data.kind = "json")
            /\ \A i \in 1..(Len(f.file) - Len(Extension(lim.given.result.data.kind = "json"))) :
                  f.file[i] \in AsciiSafeChars

\* The call spilled: the result now starts with the boilerplate.
Spilled == Handled /\ tool_call_result.result.data.head.present

\* The files at path `p`.
FilesAt(p) == {f \in files : f.chat = p.chat /\ f.file = p.file}

\* C13: after a successful spill the overflow file holds the whole
\* non-compact stringified data of the given result, and the preview in
\* result.data is a prefix of it: nothing of the data is lost.
C13_FileHoldsFullText ==
    Spilled =>
        /\ FilesAt(ExpectedPath) # {}
        /\ \A f \in FilesAt(ExpectedPath) : f.content = FullText
        /\ Len(tool_call_result.result.data.text) <= Len(FullText)
        /\ tool_call_result.result.data.text
             = SubSeq(FullText, 1, Len(tool_call_result.result.data.text))

\* Structured data was spilled and its preview is a proper, non-empty prefix.
C13_Witness ==
    /\ Spilled
    /\ lim.given.result.data.kind = "json"
    /\ Len(tool_call_result.result.data.text) > 0
    /\ Len(tool_call_result.result.data.text) < Len(FullText)
    /\ \E f \in FilesAt(ExpectedPath) : Len(f.content) = MaxOutputLen

\* P = max(0, max_allowed_tokens * 4 * 0.5 - len(boilerplate)) for the
\* boilerplate of this call, computed on doubled values to stay in the integers.
ExpectedPreviewLen ==
    LET b == Boilerplate(lim.messages_token, lim.max_tokens_allowed, ExpectedPath)
        doubled == lim.max_tokens_allowed * 4 - 2 * BoilerplateLen(b)
    IN IF doubled > 0 THEN doubled \div 2 ELSE 0

\* C14: after a successful spill result.data is the boilerplate (the sizes,
\* the path of the saved file, the hint) followed by the first P characters
\* of the full stringified data; the status is still SUCCESS and the error
\* field is as it was given.
C14_DataIsBoilerplatePlusPreview ==
    Spilled =>
        /\ tool_call_result.result.data.kind = "str"
        /\ tool_call_result.result.data.head
             = Boilerplate(lim.messages_token, lim.max_tokens_allowed, ExpectedPath)
        /\ tool_call_result.result.data.text
             = SubSeq(FullText, 1, Min(ExpectedPreviewLen, Len(FullText)))
        /\ tool_call_result.result.status = "SUCCESS"
        /\ tool_call_result.result.error = lim.given.result.error

\* A spill whose budget P is positive and below the length of the data, for a
\* result that came without an error.
C14_Witness ==
    /\ Spilled
    /\ ExpectedPreviewLen > 0
    /\ ExpectedPreviewLen < Len(FullText)
    /\ Len(tool_call_result.result.data.text) = ExpectedPreviewLen
    /\ lim.given.result.error = NoError
    /\ tool_call_result.result.error = NoError

\* ---------------------------------------------------- claims, SpecStorage
Exited(s) == scopes[s].pc = "exited"

NothingLeft(s) ==
    /\ scopes[s].chat \notin dirs
    /\ FilesOf(files, scopes[s].chat) = {}

\* C9 as stated: after a scope is left (body ended normally, raised or was
\* cancelled) its directory and every file saved in it no longer exist.
C9_NoResidueAfterExit ==
    \A s \in ScopeIds : Exited(s) => NothingLeft(s)

\* C9 amended: however the body ended, shutil.rmtree of the scope's directory
\* is attempted at exit, and unless rmtree itself fails the directory and
\* every file saved in it no longer exist.
C9_NoResidueUnlessRmtreeFails ==
    \A s \in ScopeIds :
        Exited(s) =>
            /\ scopes[s].rmtree # "none"
            /\ scopes[s].rmtree = "ok" => NothingLeft(s)

\* C9 witness: the body saved a file and raised, and the directory is gone.
C9_Witness ==
    \E s \in ScopeIds :
        /\ Exited(s)
        /\ scopes[s].how = "raised"
        /\ ~scopes[s].last_path.none
        /\ scopes[s].rmtree = "ok"
        /\ NothingLeft(s)

\* C10: when the recursive deletion fails at scope exit the failure is logged
\* and not raised: after a normal body nothing leaves the with statement,
\* after a body that raised (or was cancelled) its own exception does.
C10_CleanupFailureSwallowed ==
    \A s \in ScopeIds :
        (Exited(s) /\ scopes[s].rmtree \in {"failed", "failed_after_files"}) =>
            /\ scopes[s].warned
            /\ scopes[s].how = "normal" => scopes[s].propagates = "nothing"
            /\ scopes[s].how = "raised" => scopes[s].propagates = "body_exception"
            /\ scopes[s].how = "cancelled" => scopes[s].propagates = "cancellation"

\* C10 witness: the body raised and the deletion failed.
C10_Witness ==
    \E s \in ScopeIds :
        /\ Exited(s)
        /\ scopes[s].how = "raised"
        /\ scopes[s].rmtree = "failed"
        /\ scopes[s].chat \in dirs
        /\ scopes[s].propagates = "body_exception"
\* ----------------------------------------------------- claims, SpecPrompt
ComponentAsked == component_call.op = "is_component_enabled"

\* The environment setting disallows the component: it is set to a non-empty
\* string none of whose comma-separated names is the component's (as "none" is).
EnvDisallows ==
    /\ component_call.env.set
    /\ ~IsEmptyString(component_call.env.pieces)
    /\ \A i \in 1..Len(component_call.env.pieces) :
          component_call.env.pieces[i].name # component_call.component

HasOverride ==
    /\ ~component_call.overrides.none
    /\ component_call.component \in DOMAIN component_call.overrides.map

\* C21: is_component_enabled is disabled when the environment disallows the
\* component, whatever the override says; else the override's value when
\* there is one for the component; else enabled.
C21_ThreeTierPrecedence ==
    ComponentAsked =>
        /\ EnvDisallows => component_call.result = FALSE
        /\ (~EnvDisallows /\ HasOverride) =>
              component_call.result
                  = component_call.overrides.map[component_call.component]
        /\ (~EnvDisallows /\ ~HasOverride) => component_call.result = TRUE

\* The environment lists other components only and the override says
\* enabled: the result is disabled.
C21_Witness ==
    /\ ComponentAsked
    /\ EnvDisallows
    /\ \E i \in 1..Len(component_call.env.pieces) :
          component_call.env.pieces[i].name \in Components
    /\ HasOverride
    /\ component_call.overrides.map[component_call.component] = TRUE
    /\ component_call.result = FALSE

\* ------------------------------------------------------- claims, SpecHttp
Invoked == http_call.op = "_invoke"

\* The endpoints of the call whose host and path patterns the url matches.
Whitelisting ==
    IF http_call.url.wellformed
    THEN MatchingEndpoints(http_call.endpoints, http_call.url)
    ELSE {}

\* The method of the call, in capitals, GET when none was given.
RequestedMethod == MethodOf(http_call.method)

\* The first check that fails, in the order url, supported method, allowed
\* method, headers; "none" when all pass.  Headers are supplied when the
\* parameter is a non-empty string.
FirstFailedCheck ==
    IF Whitelisting = {} THEN "url"
    ELSE IF RequestedMethod \notin ALL_METHODS THEN "supported"
    ELSE IF RequestedMethod
              \notin GetMethods(http_call.endpoints[Least(Whitelisting)]) THEN "allowed"
    ELSE IF http_call.headers \in {"list", "primitive", "invalid"} THEN "headers"
    ELSE "none"

\* The errors that name each failure.
ErrorsNaming(check) ==
    CASE check = "url" -> {"invalid_url_format", "url_not_in_whitelist"}
      [] check = "supported" -> {"unsupported_method"}
      [] check = "allowed" -> {"method_not_allowed"}
      [] check = "headers" -> {"headers_not_object", "invalid_headers_json"}
      [] OTHER -> {}

\* C22: _invoke hands a request to requests.request only when the url is
\* whitelisted, the method is supported, the method is allowed by the matched
\* endpoint (GET only for an endpoint with the default methods) and supplied
\* headers are a JSON object; when a check fails the result is an ERROR
\* naming the first failure in that order, and nothing is sent.
C22_RequestOnlyAfterChecks ==
    Invoked =>
        /\ FirstFailedCheck # "none" =>
              /\ sent = <<>>
              /\ http_call.result.status = "ERROR"
              /\ http_call.result.error \in ErrorsNaming(FirstFailedCheck)
        /\ FirstFailedCheck = "none" =>
              sent = <<[method |-> RequestedMethod, url |-> http_call.url]>>
        /\ (sent # <<>> /\ http_call.endpoints[Least(Whitelisting)] = DefaultEndpoint) =>
              sent[1].method = "GET"

\* A request was sent: the url matches both endpoints, the first of them
\* allows the method given as "post", and the headers are an object.
C22_Witness ==
    /\ Invoked
    /\ Whitelisting = {1, 2}
    /\ http_call.endpoints[1] = ApiEndpoint
    /\ http_call.method = [given |-> TRUE, value |-> "post"]
    /\ http_call.headers = "object"
    /\ sent = <<[method |-> "POST", url |-> http_call.url]>>
    /\ http_call.result.status = "SUCCESS"

\* ------------------------------------------- claims, SpecConv (builders)
\* build_issue_chat_messages ran with at least one tool slot.
IssueBudgeted == call.op = "build_issue_chat_messages" /\ budget.computed

\* The call took the follow-up path: it was given a non-empty history.
FollowUp ==
    /\ call.op = "build_issue_chat_messages"
    /\ ~before.history.none
    /\ Len(before.history.items) > 0

\* A message that holds tool content: a tool-role message, or a system
\* prompt rendered with tool outputs.
HasToolContent(m) ==
    \/ m.role = "tool"
    \/ /\ m.content.kind = "issue_system_prompt"
       /\ ~m.content.tools.none
       /\ Len(m.content.tools.items) > 0

\* The steps come in the order render without tools, count tokens, truncate
\* the outputs to the budget, render with the truncated outputs.
TwoPassOrder ==
    /\ Len(events) >= 4
    /\ events[1] = Event("render", <<RenderIssuePrompt(NoneList)>>, 0)
    /\ events[2].ev = "count_tokens"
    /\ events[3] = Event("truncate_tool_outputs", <<>>, budget.value)
    /\ events[4] = Event("render",
                         <<RenderIssuePrompt(
                             SomeList(truncate_tool_outputs(call.tools, budget.value)))>>, 0)
    /\ \A i \in 5..Len(events) : events[i].ev \notin {"render", "count_tokens"}

\* C23 as stated: with at least one tool slot, both paths of
\* build_issue_chat_messages render without tools, count the tokens of the
\* tool-free list, compute the budget and only then render with the outputs
\* truncated to it; no token count is taken over a list holding a tool-role
\* message or tool content.
C23_TwoPassOverToolFreeView ==
    IssueBudgeted =>
        /\ TwoPassOrder
        /\ \A i \in 1..Len(events) :
              events[i].ev = "count_tokens" =>
                  \A j \in 1..Len(events[i].view) : ~HasToolContent(events[i].view[j])

\* The history given to the call held no tool-role message.
NoToolMessageGiven ==
    \A i \in 1..Len(before.history.items) :
        before.heap[before.history.items[i]].role # "tool"

\* No token count was taken and nothing was truncated.
NothingBudgeted ==
    /\ ~budget.computed
    /\ \A i \in 1..Len(events) :
          events[i].ev \notin {"count_tokens", "truncate_tool_outputs", "truncate_tool_messages"}

\* The messages the caller gave are all as they were.
GivenMessagesUntouched ==
    \A i \in 1..Len(before.heap) : heap[i] = before.heap[i]

\* C24: without tool content there is no token count and no truncation: the
\* new-issue path with no investigation tool returns exactly [system, user];
\* the follow-up path with no investigation tool and no tool message returns
\* the caller's history with only the user turn appended; build_chat_messages
\* without a tool message returns the history with the system prompt
\* inserted or updated and the user turn appended.
C24_NothingToBudgetNoCount ==
    /\ (call.op = "build_issue_chat_messages" /\ ~FollowUp /\ Len(call.tools) = 0) =>
          /\ NothingBudgeted
          /\ Len(returned.items) = 2
          /\ heap[returned.items[1]] = Msg("system", RenderIssuePrompt(SomeList(<<>>)))
          /\ heap[returned.items[2]] = Msg("user", UserPrompt)
    /\ (FollowUp /\ Len(call.tools) = 0 /\ NoToolMessageGiven) =>
          /\ NothingBudgeted
          /\ returned = [alias |-> "caller", items |-> conversation_history.items]
          /\ conversation_history.items = Append(before.history.items, Len(before.heap) + 1)
          /\ heap = Append(before.heap, Msg("user", UserPrompt))
    /\ (call.op = "build_chat_messages" /\ NoToolMessageGiven) =>
          LET given == before.history.items
              prompted == add_or_update_system_prompt(
                              before.heap, given,
                              [none |-> call.system_prompt_none, value |-> ChatSystemPrompt])
              n == Len(returned.items)
          IN /\ NothingBudgeted
             /\ n = Len(prompted.items) + 1
             /\ SubSeq(returned.items, 1, n - 1) = prompted.items
             /\ heap = Append(prompted.heap, Msg("user", UserPrompt))
             /\ returned.items[n] = Len(heap)
             /\ \A i \in 2..Len(given) : heap[given[i]] = before.heap[given[i]]

\* A follow-up call with a full history, no tool message and no
\* investigation tool came back with only the user turn appended.
C24_Witness ==
    /\ FollowUp
    /\ Len(call.tools) = 0
    /\ NoToolMessageGiven
    /\ Len(before.history.items) = MaxHistory
    /\ Len(conversation_history.items) = MaxHistory + 1
    /\ GivenMessagesUntouched
    /\ events = <<>>

\* C25 as stated: the follow-up path with at least one tool slot returns the
\* caller's own list with the user turn appended last, the content at
\* position 0 replaced by the prompt rendered with the truncated tools, every
\* tool-role message cut to the budget, and every other message with the role
\* and content it had, whatever the first message of the history is.
C25_FollowUpFrame ==
    (FollowUp /\ budget.computed) =>
        LET given == before.history.items
            new == Len(before.heap) + 1
        IN /\ returned = [alias |-> "caller", items |-> conversation_history.items]
           /\ conversation_history.items = Append(given, new)
           /\ Len(heap) = new
           /\ heap[new] = Msg("user", UserPrompt)
           /\ heap[given[1]].content =
                  RenderIssuePrompt(
                      SomeList(truncate_tool_outputs(call.tools, budget.value)))
           /\ \A i \in 1..Len(given) : heap[given[i]].role = before.heap[given[i]].role
           /\ \A i \in 2..Len(given) :
                  heap[given[i]].content =
                      IF before.heap[given[i]].role = "tool"
                      THEN SliceContent(before.heap[given[i]].content, budget.value)
                      ELSE before.heap[given[i]].content

\* --------------------------------------------- claims, SpecStorage (scopes)
InBody(s) == scopes[s].pc = "body"

\* C26 as stated: inside one open scope, saves for two different tool calls
\* (another tool_call_id or another tool_name) never get the same file path,
\* and each saved path holds the content of its own tool call.
C26_DistinctCallsDistinctFiles ==
    \A s \in ScopeIds :
        InBody(s) =>
            \A a \in scopes[s].saved :
                /\ \A b \in scopes[s].saved : a # b => a.path # b.path
                /\ \E f \in files :
                      /\ f.chat = a.path.chat
                      /\ f.file = a.path.file
                      /\ f.content = a.content

\* C27: two scopes that are open at the same time have different directories,
\* and a step that releases one scope leaves every file of every other scope
\* that is still open as it was: none deleted, none altered, none added.
TwoOpenScopesTwoDirectories ==
    \A s, t \in ScopeIds :
        (s # t /\ InBody(s) /\ InBody(t)) => scopes[s].chat # scopes[t].chat

ReleaseKeepsOpenPeers ==
    \A s, t \in ScopeIds :
        (s # t /\ InBody(s) /\ scopes'[s].pc = "exited" /\ InBody(t)) =>
            /\ scopes'[t] = scopes[t]
            /\ scopes[t].chat \in dirs'
            /\ FilesOf(files', scopes[t].chat) = FilesOf(files, scopes[t].chat)

C27_ScopesIsolated ==
    []TwoOpenScopesTwoDirectories /\ [][ReleaseKeepsOpenPeers]_vars

\* C27 witness: scope 1 was released, its directory removed, while scope 2 was
\* open with a file; scope 2 is still open and the file of its overflow
\* record still holds that tool call's content.
C27_Witness ==
    /\ scopes[1].pc = "exited"
    /\ scopes[1].rmtree = "ok"
    /\ scopes[1].saves > 0
    /\ scopes[1].peers = {2}
    /\ InBody(2)
    /\ scopes[2].chat \in dirs
    /\ scopes[1].chat \notin dirs
    /\ \E a \in scopes[2].saved :
          [chat |-> a.path.chat, file |-> a.path.file, content |-> a.content] \in files

\* ------------------------------------------------------- claims, SpecHash
\* A step that is a call of check_and_update_config_hashes.
Checked ==
    /\ hash_call'.op = "check_and_update_config_hashes"
    /\ ~hash_call'.touched
    /\ hash_call' # hash_call

\* The digests of the listed files that exist and can be read.
CurrentHashes(listed) ==
    [p \in ConfigPaths |->
        IF p \in listed /\ config_files[p].kind = "file"
        THEN Sha1(config_files[p].content)
        ELSE Missing]

\* C28: a call returns True exactly when the digests of the listed files that
\* exist and can be read differ from the stored ones; the hash file is
\* rewritten in that case only; and a call that follows a call with the same
\* files whose save succeeded, nothing having changed between, returns False
\* and leaves the hash file as it is.
ReturnsWhetherHashesDiffer ==
    LET current == CurrentHashes(hash_call'.listed)
        stored == load_config_hashes(hash_file)
    IN /\ hash_call'.returned = (current # stored)
       /\ ~hash_call'.returned => (hash_file' = hash_file /\ hash_call'.saved = "none")
       /\ (hash_call'.returned /\ hash_call'.saved = "ok") =>
              hash_file' = JsonHashFile(current)
       /\ hash_call'.repeat => (~hash_call'.returned /\ hash_file' = hash_file)

C28_TrueExactlyOnDifference == [][Checked => ReturnsWhetherHashesDiffer]_vars

\* C28 witness: a second call with the same files right after a call whose
\* save succeeded: both files named, one of them tracked, the other not readable.
C28_Witness ==
    /\ hash_call.op = "check_and_update_config_hashes"
    /\ hash_call.repeat
    /\ ~hash_call.returned
    /\ hash_call.listed = ConfigPaths
    /\ hash_file.kind = "json"
    /\ Keys(hash_file.hashes) = {"/cwd/a.yaml"}
    /\ config_files["/cwd/b.yaml"].kind = "unreadable"

\* ------------------------------------------- claims, SpecConv (budget sum)
\* A budget was computed: by a builder, or by a direct calculate_tool_size call.
Budgeted == budget.computed \/ Calculated

BudgetOf == IF Calculated THEN call.tool_size ELSE budget.value

\* The tool-role messages of the history the caller gave.
GivenToolMessages ==
    IF before.history.none THEN <<>>
    ELSE ToolMessages(before.heap, before.history.items)

\* The number of tool slots of the call: the investigation tools plus, in the
\* follow-up path, the tool-role messages of the history; for
\* build_chat_messages the tool-role messages.
Slots ==
    IF Calculated THEN call.number_of_tools
    ELSE Len(call.tools) + Len(GivenToolMessages)

\* The truncated tool outputs: those a builder rendered the prompt with (its
\* fourth step), or those truncate_tool_outputs returned.
TruncatedOutputs ==
    IF call.op = "build_issue_chat_messages"
    THEN events[4].view[1].tools.items
    ELSE call.outputs

\* The most characters a content can have: the length of a text, the last
\* slice [:k] of a rendered text.
MostChars(c) ==
    IF c.kind = "text" THEN Len(c.body)
    ELSE IF c.cuts = <<>> THEN DEFAULT_TOOL_SIZE + 1
    ELSE Max(c.cuts[Len(c.cuts)], 0)

\* The lengths of the content of every slot after the call.
SlotLengths ==
    [i \in 1..Len(TruncatedOutputs) |-> Len(TruncatedOutputs[i].output)]
    \o (IF Calculated THEN <<>>
        ELSE LET list == ToolMessages(heap, returned.items)
             IN [i \in 1..Len(list) |-> MostChars(heap[list[i]].content)])

RECURSIVE Sum(_)
Sum(s) == IF s = <<>> THEN 0 ELSE Head(s) + Sum(Tail(s))

\* C29: when the available space is >= 0 and there is at least one tool slot,
\* n times the budget is at most the available space, the budget is at most
\* 10000, and the tool content of the slots after truncation is no longer in
\* total than the available space.
C29_TotalWithinAvailable ==
    (Budgeted /\ Available >= 0 /\ Slots >= 1) =>
        /\ Slots * BudgetOf <= Available
        /\ BudgetOf <= 10000
        /\ call.op # "calculate_tool_size" =>
              /\ \A i \in 1..Len(SlotLengths) : SlotLengths[i] <= BudgetOf
              /\ Len(SlotLengths) <= Slots
              /\ Sum(SlotLengths) <= Available

\* C29 witness: a follow-up call with one investigation tool and one tool
\* message, 3 tokens available: the budget is 1 and both contents are cut to it.
C29_Witness ==
    /\ FollowUp
    /\ Len(call.tools) = 1
    /\ Len(GivenToolMessages) = 1
    /\ Len(call.tools[1].output) = MaxOutputLen
    /\ Len(before.heap[GivenToolMessages[1]].content.body) = MaxOutputLen
    /\ Available = 3
    /\ budget = Computed(1)
    /\ SlotLengths = <<1, 1>>

\* ------------------------------------------- claims, SpecConv (caller's list)
\* C30 as stated: after build_chat_messages the caller's list has the length
\* and order it had, and every message in it, the first (system) message and
\* the tool-role messages included, has the content it had before the call.
C30_CallerHistoryUnchanged ==
    (call.op = "build_chat_messages" /\ ~before.history.none) =>
        /\ conversation_history = before.history
        /\ \A i \in 1..Len(before.history.items) :
              heap[before.history.items[i]] = before.heap[before.history.items[i]]

====
